---- MODULE Spec2Model ----
(***************************************************************************)
(* A model of twistedcaldav/storebridge.py: the batch POST protocols of a  *)
(* store-backed collection (simpleBatchPOST, crudBatchPOST, bulkCreate,    *)
(* crudCreate, crudUpdate, crudDelete and the address-book overrides) and   *)
(* the recursive storeRemove of a collection.                               *)
(*                                                                         *)
(* One request is one sequence of steps, each step ending at a suspend     *)
(* point (a yield on a backend call) of the inlineCallbacks generator.      *)
(* What the backend, the privilege library and the request body give is    *)
(* drawn with \E where the code reads it.                                   *)
(***************************************************************************)
EXTENDS Integers, Sequences, FiniteSets, TLC

\* ------------------------------------------------------------------ bounds
MaxItems == 2       \* items of one CRUD batch request
MaxComponents == 3  \* components in the body of one simple batch request
MaxChildren == 3    \* children of a collection that is removed
MaxScheduleEtags == 2   \* superseded entity tags an object's scheduleEtags holds
MaxBytes == 2       \* bytes in the stream of an attachment upload
MaxAttendees == 1   \* ATTENDEEs of the event an attachment collection belongs to
MaxInvites == 2     \* sharing invites of the calendar that holds the event

\* --------------------------------------------------------------- constants
Hrefs == {"h1"}                  \* target references an item can carry
UIDs == {"u", "k"}               \* resourceUID() values of the vCards sent
MemberUIDs == UIDs \cup {"x"}    \* UIDs a group can list; "x" is in no batch
NoToken == 0                     \* ifmatch is None
Tokens == {0, 1, 2}              \* If-Match tokens of an item (entity tags)
Unbound == "unbound"             \* a local name that was never assigned
None == "None"

\* the backend exceptions the model lets a store call raise
StoreFaults == {"LockTimeout", "InvalidObjectResourceError", "RuntimeError"}

\* ------------------------------------------------------- raised exceptions
NoRaise == [kind |-> "ok", code |-> None, structured |-> FALSE, el |-> None, type |-> None,
            headers |-> {}]

\* a privilege check that was not made
NotChecked == [kind |-> "unchecked", code |-> None, structured |-> FALSE, el |-> None, type |-> None,
            headers |-> {}]

\* HTTPError(StatusResponse(code, ...)) or HTTPError(code)
HTTPStatusError(code) ==
    [kind |-> "HTTPError", code |-> code, structured |-> FALSE, el |-> None, type |-> "HTTPError",
     headers |-> {}]

\* HTTPError(ErrorResponse(code, element, ...))
HTTPErrorResponse(code, element) ==
    [kind |-> "HTTPError", code |-> code, structured |-> TRUE, el |-> element, type |-> "HTTPError",
     headers |-> {}]

\* any exception that is not an HTTPError
Exception(type) ==
    [kind |-> "Exception", code |-> None, structured |-> FALSE, el |-> None, type |-> type,
     headers |-> {}]

\* --------------------------------------------------- exception mapping
storeExceptionStatus(err, arg) == HTTPStatusError("FORBIDDEN")

storeExceptionError(err, arg) == HTTPErrorResponse("FORBIDDEN", arg)

\* the StatusResponse carries a Retry-After header
storeExceptionUnavailable(err, arg) ==
    [HTTPStatusError("SERVICE_UNAVAILABLE") EXCEPT !.headers = {"Retry-After"}]

\* the entries of the object resources' StoreExceptionsErrors that the
\* model's store faults can hit (calendar and address-book objects map these
\* exception types to the same strategies)
StoreExceptionsErrors(ab) ==
    [t \in {"LockTimeout", "InvalidObjectResourceError", "ObjectResourceNameAlreadyExistsError",
            "UIDExistsError"} |->
        CASE t = "LockTimeout" -> [strategy |-> "unavailable", arg |-> "Lock timed out."]
          [] t = "InvalidObjectResourceError" ->
                [strategy |-> "error",
                 arg |-> IF ab THEN "valid-address-data" ELSE "valid-calendar-data"]
          [] t = "UIDExistsError" ->
                [strategy |-> "error",
                 arg |-> IF ab THEN "no-uid-conflict-vcard" ELSE "no-uid-conflict"]
          [] OTHER -> [strategy |-> "status", arg |-> None]]

handleStoreExceptionAny(ex, exceptionMap) == storeExceptionStatus(ex, None)

\* what leaves "except Exception as err: self._handleStoreException(err, map); raise"
handleStoreException(ex, exceptionMap) ==
    IF ex \in DOMAIN exceptionMap
    THEN CASE exceptionMap[ex].strategy = "status" -> storeExceptionStatus(ex, exceptionMap[ex].arg)
           [] exceptionMap[ex].strategy = "error" -> storeExceptionError(ex, exceptionMap[ex].arg)
           [] OTHER -> storeExceptionUnavailable(ex, exceptionMap[ex].arg)
    ELSE Exception(ex)

\* storeComponent / the object's storeRemove: fault is what the backend call
\* raised ("ok" when it returned)
storeRaise(fault, ab) ==
    IF fault = "ok" THEN NoRaise
    ELSE IF fault = "NoSuchObjectResourceError" THEN HTTPStatusError("NOT_FOUND")
    ELSE handleStoreException(fault, StoreExceptionsErrors(ab))

\* the HTTPError authorize() raises: a NeedPrivilegesResponse (an
\* ErrorResponse) or an UnauthorizedResponse (no error element)
AuthorizeOutcomes ==
    {NoRaise, HTTPErrorResponse("FORBIDDEN", "need-privileges"), HTTPStatusError("UNAUTHORIZED")}

\* ---------------------------------------------------------------- state
VARIABLES
    abook,              \* the collection is an AddressBookCollectionResource
    pc,                 \* where the request is
    method,             \* "simple" or "crud"
    items,              \* xmlroot.children / components: what each item carries
    xmlresponses,       \* the result array
    crudDeleteInfo, crudCreateInfo, crudUpdateInfo,   \* indices, in request order
    hasPrivilege,       \* crudDelete's / crudCreate's recorded privilege check
    pos,                \* position of the loop the request is in
    indexedComponents,  \* bulkCreate's argument: <<index, component>> pairs
    error,              \* bulkCreate's local name "error"
    coaddedUIDs,        \* address-book bulkCreate's local
    groupRetries,       \* address-book bulkCreate's local
    objects,            \* backend: href -> entity tag of the object, 0 if none
    shared,             \* hrefs whose object is a sharee resource or shared group
    storeUIDs,          \* backend: the UIDs visible in the address book
    ctag,               \* backend: the collection's sync token
    response,           \* what the request returned
    trace,              \* history: the store attempts, in execution order
    last,               \* history: the item step taken last
    firstPass,          \* history: address-book bulkCreate at the end of its first loop
    checks,             \* history: how often each collection privilege was checked
    iffy,               \* the change token in the request's If header, NoToken if none
    coll,               \* the collection resource that storeRemove is called on
    children,           \* storeRemove: the names listChildren() returned
    present,            \* backend: the children the collection still holds
    errors,             \* storeRemove: the ResponseQueue of failed children
    resource,           \* an object resource: its _newStoreObject and its kind
    store,              \* backend: the object the resource wraps, and calls made on it
    request,            \* the last request made on the object resource or collection
    outcome,            \* what that request returned or raised
    collection,         \* a collection resource that DELETE and MOVE are made on
    config,             \* config.Scheduling.CalDAV.ScheduleTagCompatibility, config.Patch
    attachment,         \* a CalendarAttachment resource and the backend behind it
    managedIDs,         \* backend: the managed attachments of the calendar object
    attendees,          \* the principals of the event's ATTENDEEs, None if unknown
    invites,            \* backend: sharingInvites() of the event's calendar
    acl,                \* the access control list an attachment collection computed
    properties,         \* backend: the property store a wrapper was made for
    propertyCall,       \* the last call of the wrapper and what it gave
    txnResource,        \* the store handles of a calendar object resource
    txnRequest,         \* the transaction and the lookup caches of its request
    txnBackend,         \* backend: what a transaction started now would find
    txnLog              \* what inNewTransaction gave and what was used after it

batchVars == <<abook, pc, method, items, xmlresponses, crudDeleteInfo, crudCreateInfo,
               crudUpdateInfo, hasPrivilege, pos, indexedComponents, error, coaddedUIDs,
               groupRetries, objects, shared, storeUIDs, ctag, response, trace, last,
               firstPass, checks, iffy>>

removeVars == <<coll, children, present, errors>>

objectVars == <<resource, store, request, outcome, collection, config>>

propertyVars == <<properties, propertyCall>>

transactionVars == <<txnResource, txnRequest, txnBackend, txnLog>>

sideVars == <<attachment, managedIDs, attendees, invites, acl, propertyVars,
              transactionVars>>

vars == <<batchVars, removeVars, objectVars, sideVars>>

\* ------------------------------------------------------ response entries
NoResponse == [index |-> 0, code |-> None, error |-> None, href |-> None]

\* PropertyStatusResponse(..., Status OK)
SuccessEntry(index, href) == [index |-> index, code |-> "OK", error |-> None, href |-> href]

\* StatusResponse(href, Status code, Error(error) if error else None)
FailureEntry(index, href, code, err) ==
    [index |-> index, code |-> code, error |-> err, href |-> href]

NoStep == [index |-> 0, op |-> None, href |-> None, ifmatch |-> NoToken, etag |-> 0,
           checked |-> FALSE, stored |-> FALSE, before |-> 0, after |-> 0]

NoFirstPass == [done |-> FALSE, created |-> {}, deferred |-> <<>>]

NoResponseYet == [status |-> None, ctag |-> 0, cause |-> None, at |-> None]

\* ------------------------------------------------------- classification
\* what an item of a CRUD batch carries: a DAV:href, a delete marker, a data
\* element under its set/prop element
\* (a delete marker is read only next to an href, and data is not read next to
\* a delete marker: the shapes that differ only there are left out)
ItemShapes ==
    {s \in [href : BOOLEAN, delete : BOOLEAN, data : BOOLEAN] : s.delete => s.href /\ ~s.data}

SimpleItem == [href |-> FALSE, delete |-> FALSE, data |-> TRUE]

\* a classification that takes an item with a target and no payload as an
\* update
ClassifyByTarget(item) ==
    IF ~item.href
    THEN IF ~item.data THEN "bad" ELSE "create"
    ELSE IF ~item.delete THEN "update" ELSE "delete"

\* the multiput operation of one item; "bad" is the BAD_REQUEST of the loop
Classify(item) ==
    IF ~item.href
    THEN IF ~item.data THEN "bad" ELSE "create"
    ELSE IF ~item.delete
         THEN IF ~item.data THEN "bad" ELSE "update"
         ELSE "delete"

InfoOfInGroup(its, op, i) ==
    [j \in 1..Cardinality({k \in i..Len(its) : Classify(its[k]) = op}) |-> j]

\* the indices of the items of one operation, in request order
RECURSIVE InfoOf(_, _, _)
InfoOf(its, op, i) ==
    IF i > Len(its) THEN <<>>
    ELSE (IF Classify(its[i]) = op THEN <<i>> ELSE <<>>) \o InfoOf(its, op, i + 1)

CrudPhasesCreateFirst == <<"crudCreate", "crudDelete", "crudUpdate">>

\* "now do the work": the order of the three calls of crudBatchPOST
CrudPhases == <<"crudDelete", "crudCreate", "crudUpdate">>

PhaseInfo(p) ==
    CASE p = "crudDelete" -> crudDeleteInfo
      [] p = "crudCreate" -> crudCreateInfo
      [] OTHER -> crudUpdateInfo

\* the first call at or after place k that has work to do (crudDelete and
\* crudCreate return at once on an empty list, crudUpdate loops over nothing)
FirstPhaseOf(del, cre, upd, k) ==
    LET info(p) == CASE p = "crudDelete" -> del [] p = "crudCreate" -> cre [] OTHER -> upd
        live == {j \in k..Len(CrudPhases) : info(CrudPhases[j]) # <<>>}
    IN  IF live = {} THEN "finish"
        ELSE CrudPhases[CHOOSE j \in live : \A j2 \in live : j <= j2]

AfterPhase(p) ==
    LET k == CHOOSE j \in 1..Len(CrudPhases) : CrudPhases[j] = p
    IN  FirstPhaseOf(crudDeleteInfo, crudCreateInfo, crudUpdateInfo, k + 1)

\* where the request goes when bulkCreate returns
AfterCreate == IF method = "crud" THEN AfterPhase("crudCreate") ELSE "finish"

\* ------------------------------------------------------------- helpers
Enumerate(n) == [i \in 1..n |-> <<i, "component">>]

Bump(f, name) == [f EXCEPT ![name] = @ + 1]

\* the code and the error that "except HTTPError, e" / "except Exception"
\* of crudUpdate and crudDelete leave (both start each item with error = None)
ItemFailure(index, href, raised) ==
    IF raised.kind = "HTTPError"
    THEN FailureEntry(index, href, raised.code, IF raised.structured THEN raised.el ELSE None)
    ELSE FailureEntry(index, href, "BAD_REQUEST", None)

\* ------------------------------------------------------------- Init
\* no batch request was made
RequestIdle ==
    /\ pc = "idle"
    /\ method = None
    /\ xmlresponses = <<>>
    /\ crudDeleteInfo = <<>>
    /\ crudCreateInfo = <<>>
    /\ crudUpdateInfo = <<>>
    /\ hasPrivilege = [crudDelete |-> NotChecked, crudCreate |-> NotChecked]
    /\ pos = 0
    /\ indexedComponents = <<>>
    /\ error = Unbound
    /\ coaddedUIDs = {}
    /\ groupRetries = <<>>
    /\ objects = [h \in Hrefs |-> 1]
    /\ storeUIDs = {}
    /\ ctag = 1
    /\ response = NoResponseYet
    /\ trace = <<>>
    /\ last = NoStep
    /\ firstPass = NoFirstPass
    /\ checks = [bind |-> 0, unbind |-> 0]
    /\ iffy = NoToken

BatchIdle == items = <<>> /\ RequestIdle

\* a bound collection with no children
NoRemove ==
    /\ coll = [bound |-> TRUE, sharee |-> FALSE, backend |-> "present", share |-> "none"]
    /\ children = <<>>
    /\ present = {}
    /\ errors = <<>>

\* ------------------------------------------- an idle object resource
\* the backend holds no object under the resource's name
NoStoreObject ==
    [object |-> FALSE, etag |-> NoToken, scheduleTag |-> NoToken, scheduleEtags |-> <<>>,
     share |-> "none"]

\* the destination of a MOVE: no Destination header, a URL that locates
\* nothing, or a resource that exists or not, under a parent that is a store
\* collection or not, in the source's home or not
NoDestination ==
    [header |-> FALSE, found |-> FALSE, exists |-> FALSE, isCollection |-> FALSE,
     sameHome |-> FALSE]

\* the headers, body and parameters of a request, what the privilege checks
\* on the parents answer and what the backend calls raise
NoRequest ==
    [method |-> None, auth |-> NotChecked, bind |-> NotChecked,
     ifScheduleTagMatch |-> NoToken, ifMatch |-> NoToken, ifNoneMatch |-> NoToken,
     prefer |-> FALSE, accept |-> "ok",
     body |-> None, destination |-> NoDestination, overwrite |-> "unset", rid |-> None,
     depth |-> None, fault |-> "ok", shareFault |-> "ok", action |-> None, mid |-> None,
     length |-> 0]

\* no request was made yet
NoOutcome ==
    [method |-> None, was |-> FALSE, tag |-> NoToken, raised |-> NoRaise, code |-> None,
     calls |-> <<>>, stored |-> None, smartMerge |-> None, at |-> None,
     thrown |-> NoRaise, headers |-> {}, metadata |-> {}]

\* no access control list was computed
NoACL == [of |-> None, raised |-> NoRaise, aces |-> <<>>, othersCanWrite |-> FALSE]

\* an attachment resource that is not bound, in an empty dropbox
NoAttachment ==
    [managed |-> FALSE, bound |-> FALSE, size |-> 0, limit |-> 0, free |-> 0]

\* the namespaces and names of the properties
Namespaces == {"DAV:", "CS:"}
Names == {"displayname", "getctag"}

\* the keys of the backend property store
PropertyNames == [namespace : Namespaces, name : Names]

\* PropertyName(namespace, name)
PropertyName(namespace, name) == [namespace |-> namespace, name |-> name]

\* no call of the wrapper was made
NoPropertyCall ==
    [op |-> None, qname |-> <<None, None>>, raised |-> NoRaise, value |-> None,
     before |-> [k \in PropertyNames |-> None]]

\* no store object, or no collection of the backend
NoHandle == [txn |-> None, home |-> None, calendar |-> None, name |-> None]

\* inNewTransaction was not called
NoTxnLog ==
    [called |-> FALSE, raised |-> NoRaise, returned |-> None, opened |-> {},
     before |-> NoHandle, used |-> {}, ops |-> {}]

\* no resource whose transaction is changed
NoTransactions ==
    /\ txnResource = [storeObject |-> NoHandle, storeParent |-> NoHandle,
                      deadProperties |-> None, parentResource |-> NoHandle]
    /\ txnRequest = [transaction |-> None, resourcesByURL |-> {}, urlsByResource |-> {}]
    /\ txnBackend = [homes |-> {}, calendars |-> {}, objects |-> {}]
    /\ txnLog = NoTxnLog

\* an empty property store
NoProperties ==
    /\ properties = [k \in PropertyNames |-> None]
    /\ propertyCall = NoPropertyCall

\* the other specifications leave the attachments alone
NoSide ==
    /\ NoProperties
    /\ NoTransactions
    /\ attachment = NoAttachment
    /\ managedIDs = {}
    /\ attendees = <<>>
    /\ invites = <<>>
    /\ acl = NoACL

\* the other specifications leave the object resource alone
NoObject ==
    /\ resource = [storeObject |-> None, metadata |-> {}]
    /\ store = NoStoreObject
    /\ request = NoRequest
    /\ outcome = NoOutcome
    /\ collection = [kind |-> "calendar", bound |-> TRUE, sharee |-> FALSE, name |-> "a"]
    /\ config = [ScheduleTagCompatibility |-> FALSE, EnableCalendarObject |-> FALSE,
                 EnableManagedAttachments |-> TRUE,
                 EnableProxyPrincipals |-> FALSE]

\* a calendar or address-book collection holding one object, "h1"; in an
\* address book that object may be a shared group
Init ==
    /\ abook \in BOOLEAN
    /\ NoSide
    /\ shared \in IF abook THEN SUBSET Hrefs ELSE {{}}
    /\ BatchIdle
    /\ NoRemove
    /\ NoObject

\* a request that ends before any item is executed
Refuse(status) ==
    /\ pc' = "failed"
    /\ response' = [status |-> status, ctag |-> 0, cause |-> None, at |-> None]
    /\ UNCHANGED <<xmlresponses, crudDeleteInfo, crudCreateInfo, crudUpdateInfo, pos,
                   indexedComponents>>

\* a change token that is not the collection's
checkCTagPreconditionAnyToken(testctag, token) ==
    IF testctag # token THEN HTTPStatusError("PRECONDITION_FAILED") ELSE NoRaise

\* checkCTagPrecondition: an If header with a change token that is not the
\* collection's
checkCTagPrecondition(testctag, token) ==
    IF testctag # NoToken /\ testctag # token THEN HTTPStatusError("PRECONDITION_FAILED")
    ELSE NoRaise

\* a request an exception propagates out of
Abort(type, at) ==
    /\ pc' = "aborted"
    /\ response' = [status |-> "exception", ctag |-> 0, cause |-> type, at |-> at]

\* --------------------------------------------------------- simpleBatchPOST
\* up to the call of bulkCreate
simpleBatchPOST ==
    /\ pc = "idle"
    /\ \E bind \in AuthorizeOutcomes, testctag \in Tokens,
          n \in 0..MaxComponents, parsed \in BOOLEAN :
        /\ ~parsed => n = 0
        /\ method' = "simple"
        /\ iffy' = testctag
        /\ items' = [i \in 1..n |-> SimpleItem]
        /\ IF bind # NoRaise THEN Refuse(bind.code)
           ELSE IF checkCTagPrecondition(testctag, ctag) # NoRaise
           THEN Refuse(checkCTagPrecondition(testctag, ctag).code)
           ELSE IF ~parsed THEN Refuse("BAD_REQUEST")
           ELSE /\ xmlresponses' = [i \in 1..n |-> NoResponse]
                /\ indexedComponents' = Enumerate(n)
                /\ pos' = 1
                /\ pc' = IF n = 0 THEN "finish" ELSE "bulkCreate"
                /\ UNCHANGED <<crudDeleteInfo, crudCreateInfo, crudUpdateInfo, response>>
    /\ UNCHANGED <<sideVars, objectVars, removeVars, abook, hasPrivilege, error, coaddedUIDs,
                   groupRetries, objects, shared, storeUIDs, ctag, trace, last, firstPass,
                   checks>>

\* ----------------------------------------------------------- crudBatchPOST
\* up to the first of the three calls
crudBatchPOST ==
    /\ pc = "idle"
    /\ \E auth \in AuthorizeOutcomes, testctag \in Tokens, n \in 0..MaxItems :
       \E its \in [1..n -> ItemShapes] :
        /\ method' = "crud"
        /\ iffy' = testctag
        /\ items' = its
        /\ IF auth # NoRaise THEN Refuse(auth.code)
           ELSE IF checkCTagPrecondition(testctag, ctag) # NoRaise
           THEN Refuse(checkCTagPrecondition(testctag, ctag).code)
           ELSE IF \E i \in 1..n : Classify(its[i]) = "bad" THEN Refuse("BAD_REQUEST")
           ELSE /\ crudDeleteInfo' = InfoOf(its, "delete", 1)
                /\ crudCreateInfo' = InfoOf(its, "create", 1)
                /\ crudUpdateInfo' = InfoOf(its, "update", 1)
                /\ xmlresponses' = [i \in 1..n |-> NoResponse]
                /\ pos' = 1
                /\ pc' = FirstPhaseOf(InfoOf(its, "delete", 1), InfoOf(its, "create", 1),
                                      InfoOf(its, "update", 1), 1)
                /\ UNCHANGED <<indexedComponents, response>>
    /\ UNCHANGED <<sideVars, objectVars, removeVars, abook, hasPrivilege, error, coaddedUIDs,
                   groupRetries, objects, shared, storeUIDs, ctag, trace, last, firstPass,
                   checks>>

\* -------------------------------------------------------------- crudDelete
MatchFailsUnlessEqual(ifmatch, etag) == ifmatch # etag

\* "if ifmatch and ifmatch != etag.generate()"
MatchFails(ifmatch, etag) == ifmatch # NoToken /\ ifmatch # etag

\* the try block of one item of crudDelete: what it raises, whether it came
\* to the match check and whether it called storeRemove
crudDeleteTry(priv, etag, isShared, ifmatch, fault) ==
    IF priv # NoRaise THEN [raised |-> priv, checked |-> FALSE, stored |-> FALSE]
    ELSE IF etag = 0
    THEN [raised |-> HTTPStatusError("NOT_FOUND"), checked |-> FALSE, stored |-> FALSE]
    ELSE IF MatchFails(ifmatch, etag)
    THEN [raised |-> HTTPStatusError("PRECONDITION_FAILED"), checked |-> TRUE, stored |-> FALSE]
    ELSE [raised |-> storeRaise(fault, FALSE), checked |-> TRUE, stored |-> TRUE]

\* the same block of AddressBookCollectionResource.crudDelete
abCrudDeleteTry(priv, etag, isShared, ifmatch, fault) ==
    IF etag = 0
    THEN [raised |-> HTTPStatusError("NOT_FOUND"), checked |-> FALSE, stored |-> FALSE]
    ELSE IF MatchFails(ifmatch, etag)
    THEN [raised |-> HTTPStatusError("PRECONDITION_FAILED"), checked |-> TRUE, stored |-> FALSE]
    ELSE IF isShared
    THEN [raised |-> HTTPStatusError("FORBIDDEN"), checked |-> TRUE, stored |-> FALSE]
    ELSE IF priv # NoRaise THEN [raised |-> priv, checked |-> TRUE, stored |-> FALSE]
    ELSE [raised |-> storeRaise(fault, TRUE), checked |-> TRUE, stored |-> TRUE]

\* "Do privilege check on collection once"
crudDeleteAuthorize ==
    /\ pc = "crudDelete"
    /\ \E priv \in AuthorizeOutcomes :
        /\ hasPrivilege' = [hasPrivilege EXCEPT !.crudDelete = priv]
        /\ checks' = Bump(checks, "unbind")
        /\ pos' = 1
        /\ pc' = "crudDeleteItem"
    /\ UNCHANGED <<sideVars, objectVars, removeVars, abook, iffy, method, items, xmlresponses, crudDeleteInfo, crudCreateInfo,
                   crudUpdateInfo, indexedComponents, error, coaddedUIDs, groupRetries,
                   objects, shared, storeUIDs, ctag, response, trace, last, firstPass>>

\* one turn of the loop over crudDeleteInfo
crudDeleteItem ==
    /\ pc = "crudDeleteItem"
    /\ pos <= Len(crudDeleteInfo)
    /\ \E href \in Hrefs, ifmatch \in Tokens,
          fault \in {"ok", "NoSuchObjectResourceError"} \cup StoreFaults :
        LET index == crudDeleteInfo[pos]
            try == IF abook
                   THEN abCrudDeleteTry(hasPrivilege.crudDelete, objects[href], href \in shared, ifmatch, fault)
                   ELSE crudDeleteTry(hasPrivilege.crudDelete, objects[href], href \in shared, ifmatch, fault)
            removed == try.raised = NoRaise
        IN  /\ xmlresponses' = [xmlresponses EXCEPT ![index] =
                                   IF removed THEN SuccessEntry(index, href)
                                   ELSE ItemFailure(index, href, try.raised)]
            /\ objects' = IF removed THEN [objects EXCEPT ![href] = 0] ELSE objects
            /\ ctag' = IF removed THEN ctag + 1 ELSE ctag
            /\ trace' = Append(trace, [index |-> index, op |-> "delete"])
            /\ last' = [index |-> index, op |-> "delete", href |-> href, ifmatch |-> ifmatch,
                        etag |-> objects[href], checked |-> try.checked,
                        stored |-> try.stored, before |-> objects[href],
                        after |-> IF removed THEN 0 ELSE objects[href]]
    /\ pos' = IF pos = Len(crudDeleteInfo) THEN 1 ELSE pos + 1
    /\ pc' = IF pos = Len(crudDeleteInfo) THEN AfterPhase("crudDelete") ELSE pc
    /\ UNCHANGED <<sideVars, objectVars, removeVars, abook, iffy, method, items, crudDeleteInfo, crudCreateInfo, crudUpdateInfo,
                   hasPrivilege, indexedComponents, error, coaddedUIDs, groupRetries, shared,
                   storeUIDs, response, firstPass, checks>>

\* -------------------------------------------------------------- crudUpdate
\* the try block of one item of crudUpdate
crudUpdateTry(parsed, etag, auth, ifmatch, fault, ab) ==
    IF ~parsed
    THEN [raised |-> Exception("generateComponent"), checked |-> FALSE, stored |-> FALSE]
    ELSE IF etag = 0
    THEN [raised |-> HTTPStatusError("NOT_FOUND"), checked |-> FALSE, stored |-> FALSE]
    ELSE IF auth # NoRaise THEN [raised |-> auth, checked |-> FALSE, stored |-> FALSE]
    ELSE IF MatchFails(ifmatch, etag)
    THEN [raised |-> HTTPStatusError("PRECONDITION_FAILED"), checked |-> TRUE, stored |-> FALSE]
    ELSE [raised |-> storeRaise(fault, ab), checked |-> TRUE, stored |-> TRUE]

\* one turn of the loop over crudUpdateInfo
crudUpdateItem ==
    /\ pc = "crudUpdate"
    /\ pos <= Len(crudUpdateInfo)
    /\ \E href \in Hrefs, ifmatch \in Tokens, parsed \in BOOLEAN,
          auth \in AuthorizeOutcomes, fault \in {"ok"} \cup StoreFaults :
        LET index == crudUpdateInfo[pos]
            try == crudUpdateTry(parsed, objects[href], auth, ifmatch, fault, abook)
            updated == try.raised = NoRaise
        IN  /\ xmlresponses' = [xmlresponses EXCEPT ![index] =
                                   IF updated THEN SuccessEntry(index, href)
                                   ELSE ItemFailure(index, href, try.raised)]
            /\ objects' = IF updated THEN [objects EXCEPT ![href] = @ + 1] ELSE objects
            /\ ctag' = IF updated THEN ctag + 1 ELSE ctag
            /\ trace' = Append(trace, [index |-> index, op |-> "update"])
            /\ last' = [index |-> index, op |-> "update", href |-> href, ifmatch |-> ifmatch,
                        etag |-> objects[href], checked |-> try.checked,
                        stored |-> try.stored, before |-> objects[href],
                        after |-> IF updated THEN objects[href] + 1 ELSE objects[href]]
    /\ pos' = IF pos = Len(crudUpdateInfo) THEN 1 ELSE pos + 1
    /\ pc' = IF pos = Len(crudUpdateInfo) THEN AfterPhase("crudUpdate") ELSE pc
    /\ UNCHANGED <<sideVars, objectVars, removeVars, abook, iffy, method, items, crudDeleteInfo, crudCreateInfo, crudUpdateInfo,
                   hasPrivilege, indexedComponents, error, coaddedUIDs, groupRetries, shared,
                   storeUIDs, response, firstPass, checks>>

\* -------------------------------------------------------------- bulkCreate
\* the locals of bulkCreate, and the exception that leaves it
Locals(xml, err, coadded, retries, uids) ==
    [xml |-> xml, error |-> err, coadded |-> coadded, retries |-> retries, uids |-> uids,
     raised |-> NoRaise]

\* the try block of one item of bulkCreate
bulkCreateTry(component, fault) ==
    IF component = None THEN Exception("ValueError") ELSE storeRaise(fault, FALSE)

\* the except and else clauses of one item of bulkCreate.  "error" is
\* assigned only when the response is an ErrorResponse, and is read either
\* way: when it was never assigned the read raises UnboundLocalError inside
\* the handler, which no except clause of the same try catches
bulkCreateExcept(s, index, raised) ==
    IF raised.kind = "HTTPError"
    THEN LET err == IF raised.structured THEN raised.el ELSE s.error
         IN  IF err = Unbound
             THEN [s EXCEPT !.raised = Exception("UnboundLocalError")]
             ELSE [s EXCEPT !.error = err,
                            !.xml[index] = FailureEntry(index, "", raised.code, err)]
    ELSE IF raised.kind = "Exception"
    THEN [s EXCEPT !.xml[index] = FailureEntry(index, "", "BAD_REQUEST", None)]
    ELSE [s EXCEPT !.xml[index] = SuccessEntry(index, "new")]

bulkCreateStep(s, index, component, fault) ==
    bulkCreateExcept(s, index, bulkCreateTry(component, fault))

\* the backend's createObjectResourceWithName for a vCard: a UID the address
\* book already holds is a UIDExistsError; a group whose members are neither
\* in the address book nor in the coaddedUIDs option is refused, the
\* exception's message being the members that are missing
abStoreCreate(uids, coadded, uid, members, fault) ==
    IF fault # "ok" THEN storeRaise(fault, TRUE)
    ELSE IF uid \in uids THEN storeRaise("UIDExistsError", TRUE)
    ELSE IF members \ (uids \cup coadded) # {}
    THEN Exception("GroupWithUnsharedAddressNotAllowedError")
    ELSE NoRaise

\* the try block of one item of AddressBookCollectionResource.bulkCreate
abBulkCreateTry(s, component, uid, members, fault) ==
    IF component = None THEN Exception("ValueError")
    ELSE abStoreCreate(s.uids, {}, uid, members, fault)

\* one item of the first loop of AddressBookCollectionResource.bulkCreate
abBulkCreateStep(s, index, component, uid, members, fault) ==
    LET raised == abBulkCreateTry(s, component, uid, members, fault)
    IN  IF raised.type = "GroupWithUnsharedAddressNotAllowedError"
        THEN [s EXCEPT !.retries = Append(@, [index |-> index, uid |-> uid,
                                              members |-> members,
                                              missing |-> members \ s.uids])]
        ELSE IF raised = NoRaise
        THEN [bulkCreateExcept(s, index, raised) EXCEPT !.coadded = @ \cup {uid},
                                                        !.uids = @ \cup {uid}]
        ELSE bulkCreateExcept(s, index, raised)

\* "get set of UIDs added"
abCoadded(coadded, retries) == coadded \cup {retries[j].uid : j \in 1..Len(retries)}

\* the retries whose missing UIDs are not all co-added
abUnsatisfied(s) == {j \in 1..Len(s.retries) : s.retries[j].missing \ s.coadded # {}}

RemoveAt(seq, j) == SubSeq(seq, 1, j - 1) \o SubSeq(seq, j + 1, Len(seq))

\* an eviction that leaves the group in groupRetries
abEvictKeeps(s) ==
    IF abUnsatisfied(s) = {} THEN s
    ELSE LET j == CHOOSE j \in abUnsatisfied(s) : \A j2 \in abUnsatisfied(s) : j <= j2
             g == s.retries[j]
         IN  [s EXCEPT !.xml[g.index] = FailureEntry(g.index, "", "FORBIDDEN", None),
                       !.coadded = @ \ {g.uid}]

\* one turn of "while(True)": the first retry in list order that cannot
\* succeed gets FORBIDDEN, its UID leaves coaddedUIDs, it leaves groupRetries
abEvict(s) ==
    IF abUnsatisfied(s) = {} THEN s
    ELSE LET j == CHOOSE j \in abUnsatisfied(s) : \A j2 \in abUnsatisfied(s) : j <= j2
             g == s.retries[j]
         IN  [s EXCEPT !.xml[g.index] = FailureEntry(g.index, "", "FORBIDDEN", None),
                       !.coadded = @ \ {g.uid},
                       !.retries = RemoveAt(@, j)]

abRetryRecovers(s, j, fault) ==
    LET g == s.retries[j]
        raised == abStoreCreate(s.uids, s.coadded, g.uid, g.members, fault)
    IN  IF raised # NoRaise
        THEN [s EXCEPT !.xml[g.index] = FailureEntry(g.index, "", "BAD_REQUEST", None)]
        ELSE [s EXCEPT !.xml[g.index] = SuccessEntry(g.index, "new"),
                       !.uids = @ \cup {g.uid}]

\* one turn of the last loop: the store is called with coaddedUIDs in the
\* options, and nothing is caught
abRetry(s, j, fault) ==
    LET g == s.retries[j]
        raised == abStoreCreate(s.uids, s.coadded, g.uid, g.members, fault)
    IN  IF raised # NoRaise THEN [s EXCEPT !.raised = raised]
        ELSE [s EXCEPT !.xml[g.index] = SuccessEntry(g.index, "new"),
                       !.uids = @ \cup {g.uid}]

\* -------------------------------------------------------------- crudCreate
\* the branch "hasPrivilege is not True" for every item: crudCreate's own
\* local "error" is assigned only for an ErrorResponse
crudCreateDenied(xml, info, priv) ==
    IF ~priv.structured
    THEN [xml |-> xml, raised |-> Exception("UnboundLocalError")]
    ELSE [xml |-> [i \in 1..Len(xml) |->
                     IF \E j \in 1..Len(info) : info[j] = i
                     THEN FailureEntry(i, "", priv.code, priv.el)
                     ELSE xml[i]],
          raised |-> NoRaise]

TraceOf(info, op) ==
    [j \in 1..Len(info) |-> [index |-> info[j], op |-> op, own |-> NoRaise]]

\* crudCreate up to its call of bulkCreate
crudCreate ==
    /\ pc = "crudCreate"
    /\ \E priv \in AuthorizeOutcomes, parse \in [1..Len(crudCreateInfo) -> BOOLEAN] :
        /\ hasPrivilege' = [hasPrivilege EXCEPT !.crudCreate = priv]
        /\ checks' = Bump(checks, "bind")
        /\ IF priv = NoRaise
           THEN /\ indexedComponents' =
                      [j \in 1..Len(crudCreateInfo) |->
                          <<crudCreateInfo[j], IF parse[j] THEN "component" ELSE None>>]
                /\ pos' = 1
                /\ pc' = "bulkCreate"
                /\ UNCHANGED <<xmlresponses, response, trace>>
           ELSE LET d == crudCreateDenied(xmlresponses, crudCreateInfo, priv)
                IN  /\ xmlresponses' = d.xml
                    /\ indexedComponents' = <<>>
                    /\ pos' = 1
                    /\ IF d.raised # NoRaise
                       THEN Abort(d.raised.type, "crudCreate") /\ UNCHANGED trace
                       ELSE /\ pc' = AfterCreate
                            /\ trace' = trace \o [j \in 1..Len(crudCreateInfo) |->
                                                     [TraceOf(crudCreateInfo, "create")[j]
                                                         EXCEPT !.own = priv]]
                            /\ UNCHANGED response
    /\ UNCHANGED <<sideVars, objectVars, removeVars, abook, iffy, method, items, crudDeleteInfo, crudCreateInfo, crudUpdateInfo, error,
                   coaddedUIDs, groupRetries, objects, shared, storeUIDs, ctag, last, firstPass>>

\* ------------------------------------------------------ bulkCreate, steps
MemberSets == {m \in SUBSET MemberUIDs : Cardinality(m) <= 1}

CurrentLocals == Locals(xmlresponses, error, coaddedUIDs, groupRetries, storeUIDs)

\* one turn of the loop of _CommonHomeChildCollectionMixin.bulkCreate
bulkCreateItem ==
    /\ pc = "bulkCreate"
    /\ ~abook
    /\ pos <= Len(indexedComponents)
    /\ \E fault \in {"ok"} \cup StoreFaults :
        LET index == indexedComponents[pos][1]
            s == bulkCreateStep(CurrentLocals, index, indexedComponents[pos][2], fault)
        IN  /\ xmlresponses' = s.xml
            /\ error' = s.error
            /\ ctag' = IF s.xml[index].code = "OK" THEN ctag + 1 ELSE ctag
            /\ trace' = Append(trace, [index |-> index, op |-> "create",
                                       own |-> bulkCreateTry(indexedComponents[pos][2],
                                                             fault)])
            /\ IF s.raised # NoRaise
               THEN Abort(s.raised.type, "bulkCreate") /\ UNCHANGED pos
               ELSE /\ pos' = IF pos = Len(indexedComponents) THEN 1 ELSE pos + 1
                    /\ pc' = IF pos = Len(indexedComponents) THEN AfterCreate ELSE pc
                    /\ UNCHANGED response
    /\ UNCHANGED <<sideVars, objectVars, removeVars, abook, iffy, method, items, crudDeleteInfo, crudCreateInfo, crudUpdateInfo,
                   hasPrivilege, indexedComponents, coaddedUIDs, groupRetries, objects, shared,
                   storeUIDs, last, firstPass, checks>>

\* one turn of the first loop of AddressBookCollectionResource.bulkCreate;
\* after the last one, "if groupRetries:" and the union with the retries' UIDs
abBulkCreateItem ==
    /\ pc = "bulkCreate"
    /\ abook
    /\ pos <= Len(indexedComponents)
    /\ \E uid \in UIDs, members \in MemberSets, fault \in {"ok"} \cup StoreFaults :
        LET index == indexedComponents[pos][1]
            s == abBulkCreateStep(CurrentLocals, index, indexedComponents[pos][2],
                                  uid, members, fault)
            atEnd == pos = Len(indexedComponents)
        IN  /\ xmlresponses' = s.xml
            /\ error' = s.error
            /\ groupRetries' = s.retries
            /\ storeUIDs' = s.uids
            /\ ctag' = IF s.xml[index].code = "OK" THEN ctag + 1 ELSE ctag
            /\ trace' = Append(trace, [index |-> index, op |-> "create",
                                       own |-> abBulkCreateTry(CurrentLocals,
                                                               indexedComponents[pos][2],
                                                               uid, members, fault)])
            /\ IF s.raised # NoRaise
               THEN Abort(s.raised.type, "bulkCreate") /\ UNCHANGED <<pos, coaddedUIDs, firstPass>>
               ELSE /\ pos' = IF atEnd THEN 1 ELSE pos + 1
                    /\ pc' = IF ~atEnd THEN pc
                             ELSE IF s.retries # <<>> THEN "evict" ELSE AfterCreate
                    /\ coaddedUIDs' = IF atEnd /\ s.retries # <<>>
                                      THEN abCoadded(s.coadded, s.retries) ELSE s.coadded
                    /\ firstPass' = IF atEnd
                                    THEN [done |-> TRUE, created |-> s.coadded,
                                          deferred |-> s.retries]
                                    ELSE firstPass
                    /\ UNCHANGED response
    /\ UNCHANGED <<sideVars, objectVars, removeVars, abook, iffy, method, items, crudDeleteInfo, crudCreateInfo, crudUpdateInfo,
                   hasPrivilege, indexedComponents, objects, shared, last, checks>>

\* one turn of "while(True)", or its exit
abEvictStep ==
    /\ pc = "evict"
    /\ LET s == abEvict(CurrentLocals)
       IN  /\ xmlresponses' = s.xml
           /\ coaddedUIDs' = s.coadded
           /\ groupRetries' = s.retries
           /\ pc' = IF abUnsatisfied(CurrentLocals) # {} THEN pc
                    ELSE IF groupRetries = <<>> THEN AfterCreate ELSE "retry"
    /\ pos' = 1
    /\ UNCHANGED <<sideVars, objectVars, removeVars, abook, iffy, method, items, crudDeleteInfo, crudCreateInfo, crudUpdateInfo,
                   hasPrivilege, indexedComponents, error, objects, shared, storeUIDs, ctag,
                   response, trace, last, firstPass, checks>>

\* one turn of the loop over the surviving groupRetries
abRetryItem ==
    /\ pc = "retry"
    /\ pos <= Len(groupRetries)
    /\ \E fault \in {"ok"} \cup StoreFaults :
        LET s == abRetry(CurrentLocals, pos, fault)
            index == groupRetries[pos].index
        IN  /\ xmlresponses' = s.xml
            /\ storeUIDs' = s.uids
            /\ trace' = Append(trace, [index |-> index, op |-> "retry"])
            /\ IF s.raised # NoRaise
               THEN Abort(s.raised.type, "retry") /\ UNCHANGED <<pos, ctag>>
               ELSE /\ pos' = IF pos = Len(groupRetries) THEN 1 ELSE pos + 1
                    /\ pc' = IF pos = Len(groupRetries) THEN AfterCreate ELSE pc
                    /\ ctag' = ctag + 1
                    /\ UNCHANGED response
    /\ UNCHANGED <<sideVars, objectVars, removeVars, abook, iffy, method, items, crudDeleteInfo, crudCreateInfo, crudUpdateInfo,
                   hasPrivilege, indexedComponents, error, coaddedUIDs, groupRetries, objects,
                   shared, last, firstPass, checks>>

\* "result = MultiStatusResponse(xmlresponses)" and the CTag header
batchResponse ==
    /\ pc = "finish"
    /\ response' = [status |-> "MULTI_STATUS", ctag |-> ctag, cause |-> None, at |-> None]
    /\ pc' = "done"
    /\ UNCHANGED <<sideVars, objectVars, removeVars, abook, iffy, method, items, xmlresponses, crudDeleteInfo, crudCreateInfo,
                   crudUpdateInfo, hasPrivilege, pos, indexedComponents, error, coaddedUIDs,
                   groupRetries, objects, shared, storeUIDs, ctag, trace, last, firstPass,
                   checks>>

Next ==
    \/ simpleBatchPOST
    \/ crudBatchPOST
    \/ crudDeleteAuthorize
    \/ crudDeleteItem
    \/ crudCreate
    \/ bulkCreateItem
    \/ abBulkCreateItem
    \/ abEvictStep
    \/ abRetryItem
    \/ crudUpdateItem
    \/ batchResponse

Spec == Init /\ [][Next]_vars

\* ===================== AddressBookCollectionResource.bulkCreate, as a whole
\* what the backend answers for a vCard whatever the order it is sent in
CardFaults == {"ok", "InvalidObjectResourceError"}

\* a vCard of the request body: its UID, the members it lists if it is a
\* group, and whether the backend takes its data
Cards == [uid : UIDs, members : MemberSets, fault : CardFaults]

\* the first loop from its item pos on; comps[pos] = <<index, card>>
RECURSIVE abFirstLoop(_, _, _)
abFirstLoop(s, comps, at) ==
    IF at > Len(comps) \/ s.raised # NoRaise THEN s
    ELSE LET card == comps[at][2]
         IN  abFirstLoop(abBulkCreateStep(s, comps[at][1], "component", card.uid,
                                          card.members, card.fault),
                         comps, at + 1)

\* "while(True)" to its exit
RECURSIVE abEvictLoop(_)
abEvictLoop(s) == IF abUnsatisfied(s) = {} THEN s ELSE abEvictLoop(abEvict(s))

\* the last loop from its item j on
RECURSIVE abRetryLoop(_, _)
abRetryLoop(s, j) ==
    IF j > Len(s.retries) \/ s.raised # NoRaise THEN s
    ELSE abRetryLoop(abRetry(s, j, "ok"), j + 1)

\* the whole method
abBulkCreate(s, comps) ==
    LET first == abFirstLoop(s, comps, 1)
    IN  IF first.raised # NoRaise \/ first.retries = <<>> THEN first
        ELSE abRetryLoop(
                abEvictLoop([first EXCEPT !.coadded = abCoadded(first.coadded, first.retries)]),
                1)

\* the locals of a bulkCreate that is given n components
FreshLocals(n, uids) == Locals([i \in 1..n |-> NoResponse], Unbound, {}, <<>>, uids)

\* an address book, and the vCards of one request body, no two of them equal
InitOrder ==
    /\ abook = TRUE
    /\ NoSide
    /\ shared = {}
    /\ items \in UNION {{f \in [1..n -> Cards] : \A i, j \in 1..n : f[i] = f[j] => i = j} :
                         n \in 1..MaxComponents}
    /\ RequestIdle
    /\ NoRemove
    /\ NoObject

\* bulkCreate called with the vCards in one of their orders
bulkCreateOrdered ==
    /\ pc = "idle"
    /\ \E order \in Permutations(1..Len(items)) :
        LET comps == [p \in 1..Len(items) |-> <<p, items[order[p]]>>]
            s == abBulkCreate(FreshLocals(Len(items), storeUIDs), comps)
        IN  /\ indexedComponents' = comps
            /\ xmlresponses' = s.xml
            /\ error' = s.error
            /\ coaddedUIDs' = s.coadded
            /\ groupRetries' = s.retries
            /\ storeUIDs' = s.uids
            /\ IF s.raised # NoRaise
               THEN Abort(s.raised.type, "bulkCreate")
               ELSE /\ pc' = "done"
                    /\ response' = [status |-> "MULTI_STATUS", ctag |-> ctag, cause |-> None,
                                    at |-> None]
    /\ UNCHANGED <<sideVars, objectVars, removeVars, abook, iffy, method, items, crudDeleteInfo, crudCreateInfo,
                   crudUpdateInfo, hasPrivilege, pos, objects, shared, ctag, trace, last,
                   firstPass, checks>>

NextOrder == bulkCreateOrdered

SpecOrder == InitOrder /\ [][NextOrder]_vars

\* ================================================================ claims
Denied(priv) == priv.kind = "HTTPError"

IsDenialEntry(entry, priv) ==
    /\ entry.code = priv.code
    /\ entry.error = IF priv.structured THEN priv.el ELSE None

OpRank(op) == CASE op = "delete" -> 1 [] op = "create" -> 2 [] OTHER -> 3

\* C1: when a simple or CRUD batch returns its multi-status response, the
\* result array is as long as the list of input items, no entry is left
\* empty, and entry i was written for input item i (by the operation item i
\* asks for), whatever the items' outcomes and execution order were.
ResultArrayComplete ==
    pc = "done" =>
        /\ response.status = "MULTI_STATUS"
        /\ Len(xmlresponses) = Len(items)
        /\ \A i \in 1..Len(items) :
            /\ xmlresponses[i] # NoResponse
            /\ xmlresponses[i].index = i
            /\ IF Classify(items[i]) = "create"
               THEN xmlresponses[i].href \in {"new", ""}
               ELSE xmlresponses[i].href \in Hrefs
            /\ \E p \in 1..Len(trace) : trace[p].index = i

\* a CRUD batch answered with one success and one failure, whose second item
\* was executed first
ResultArrayMixed ==
    /\ pc = "done"
    /\ method = "crud"
    /\ Len(trace) >= 2
    /\ trace[1].index > trace[2].index
    /\ \E i, j \in 1..Len(xmlresponses) :
        xmlresponses[i].code = "OK" /\ xmlresponses[j].code \notin {"OK", None}

\* C2: the failure of one item never lets an exception out of the first loop
\* of bulkCreate (it is recorded in the item's slot and the batch goes on).
ItemFailureNeverAborts ==
    pc = "aborted" => response.at # "bulkCreate"

\* C3: in a CRUD batch the items are executed one at a time, every Delete
\* item before any Create item and every Create item before any Update item,
\* whatever their order in the request; a batch that is answered has
\* executed every item.
DeleteCreateUpdateOrder ==
    method = "crud" =>
        /\ \A p, q \in 1..Len(trace) :
              p < q => OpRank(Classify(items[trace[p].index]))
                          <= OpRank(Classify(items[trace[q].index]))
        /\ \A p, q \in 1..Len(trace) :
              (p # q /\ trace[p].index = trace[q].index)
                  => {trace[p].op, trace[q].op} = {"create", "retry"}
        /\ pc = "done" => \A i \in 1..Len(items) : \E p \in 1..Len(trace) : trace[p].index = i

\* a CRUD batch that lists an Update before a Delete and executed the Delete
\* first
DeleteRanBeforeUpdate ==
    /\ pc = "done"
    /\ method = "crud"
    /\ Len(items) >= 2
    /\ Classify(items[1]) = "update"
    /\ Classify(items[2]) = "delete"
    /\ trace[1].index = 2

\* C4: the unbind and the bind check are made once each for a non-empty
\* group; a check that fails is recorded and does not end the request, no
\* item of its group changes the store, and every item of the group that has
\* a result has the failure of that check as its result.
GroupCheckFailsEveryItem ==
    /\ checks.unbind <= 1
    /\ checks.bind <= 1
    /\ (pc = "done" /\ method = "crud") =>
          /\ checks.unbind = IF crudDeleteInfo = <<>> THEN 0 ELSE 1
          /\ checks.bind = IF crudCreateInfo = <<>> THEN 0 ELSE 1
    /\ pc = "aborted" => response.at # "crudCreate"
    /\ (last.op = "delete" /\ Denied(hasPrivilege.crudDelete)) =>
          ~last.stored /\ last.after = last.before
    /\ \A i \in 1..Len(xmlresponses) :
        xmlresponses[i] # NoResponse =>
            /\ (Classify(items[i]) = "delete" /\ Denied(hasPrivilege.crudDelete))
                  => IsDenialEntry(xmlresponses[i], hasPrivilege.crudDelete)
            /\ (Classify(items[i]) = "create" /\ Denied(hasPrivilege.crudCreate))
                  => IsDenialEntry(xmlresponses[i], hasPrivilege.crudCreate)

\* C5 as claimed: an Update or Delete item that comes to the match check
\* with a token different from the target's current entity tag gets
\* Precondition-Failed and the target is neither stored to nor removed; with
\* no token, or the current entity tag, it goes on to the store operation.
MatchTokenDecides ==
    (last.op \in {"update", "delete"} /\ last.checked) =>
        LET mismatch == last.ifmatch # NoToken /\ last.ifmatch # last.etag
            entry == xmlresponses[last.index]
        IN  /\ mismatch =>
                /\ entry.code = "PRECONDITION_FAILED"
                /\ ~last.stored
                /\ last.after = last.before
            /\ ~mismatch => last.stored

\* C5 as amended: an Update or Delete item that comes to the match check
\* with a token different from the target's current entity tag gets
\* Precondition-Failed and the target is neither stored to nor removed; with
\* no token, or the current entity tag, it is not refused by the check and
\* goes on to the store operation, except that a Delete item of an address
\* book is first refused when its target is shared or the unbind check of
\* the group failed.
MatchTokenEnforced ==
    (last.op \in {"update", "delete"} /\ last.checked) =>
        LET mismatch == last.ifmatch # NoToken /\ last.ifmatch # last.etag
            entry == xmlresponses[last.index]
        IN  /\ mismatch =>
                /\ entry.code = "PRECONDITION_FAILED"
                /\ ~last.stored
                /\ last.after = last.before
                /\ objects[last.href] = last.before
            /\ ~mismatch =>
                /\ entry.code # "PRECONDITION_FAILED"
                /\ \/ last.stored
                   \/ /\ abook
                      /\ last.op = "delete"
                      /\ last.href \in shared \/ Denied(hasPrivilege.crudDelete)

\* an Update refused because an earlier Update of the same batch changed the
\* entity tag its token named
StaleTokenRefused ==
    /\ last.op = "update"
    /\ last.checked
    /\ last.ifmatch = 1
    /\ last.etag = 2
    /\ xmlresponses[last.index].code = "PRECONDITION_FAILED"

Survivors == {groupRetries[j].index : j \in 1..Len(groupRetries)}

Retried == {trace[p].index : p \in {q \in 1..Len(trace) : trace[q].op = "retry"}}

\* C6: once the eviction loop of an address-book bulkCreate has ended, a
\* group deferred in the first pass is among the groups to retry if and only
\* if every UID it was missing is a UID created in the first pass or the UID
\* of a deferred group that is itself retried; every other deferred group has
\* a Forbidden result, and once the retry loop has ended every group to retry
\* has a success result.
DeferredRetriedIffSatisfiable ==
    (abook /\ firstPass.done /\ pc # "evict") =>
        LET union == firstPass.created \cup {groupRetries[j].uid : j \in 1..Len(groupRetries)}
        IN  \A j \in 1..Len(firstPass.deferred) :
               LET g == firstPass.deferred[j]
               IN  /\ (g.index \in Survivors) <=> (g.missing \subseteq union)
                   /\ g.index \notin Survivors => xmlresponses[g.index].code = "FORBIDDEN"
                   /\ (g.index \in Survivors /\ pc \notin {"retry", "aborted"}) =>
                          xmlresponses[g.index].code = "OK"

\* C8: a deferred group is retried only if it survived the eviction, never
\* twice, and when the retry loop has ended every survivor was retried; a
\* retry that raises records no result for its item: the exception leaves the
\* request, whose response is then the exception and not a multi-status.
RetryOnceOrAbort ==
    abook =>
        /\ Retried \subseteq Survivors
        /\ \A p, q \in 1..Len(trace) :
              (trace[p].op = "retry" /\ trace[q].op = "retry" /\ trace[p].index = trace[q].index)
                 => p = q
        /\ (firstPass.done /\ pc \notin {"evict", "retry", "aborted"}) => Retried = Survivors
        /\ \A p \in 1..Len(trace) :
              trace[p].op = "retry" =>
                 \/ xmlresponses[trace[p].index].code = "OK"
                 \/ /\ p = Len(trace)
                    /\ pc = "aborted"
                    /\ response.at = "retry"
                    /\ xmlresponses[trace[p].index] = NoResponse
        /\ (pc = "aborted" /\ response.at = "retry") =>
              /\ response.status = "exception"
              /\ trace[Len(trace)].op = "retry"

\* a retry raised after another item's success was recorded
RetryAbortedBatch ==
    /\ abook
    /\ pc = "aborted"
    /\ response.at = "retry"
    /\ response.status # "MULTI_STATUS"
    /\ \E i \in 1..Len(xmlresponses) : xmlresponses[i].code = "OK"

\* the cards that ended with the given status code
CardsWith(xml, comps, code) ==
    {comps[p][2] : p \in {q \in 1..Len(comps) : xml[q].code = code}}

\* no item was refused because its UID was taken
NoUIDConflict(xml) == \A i \in 1..Len(xml) : xml[i].error # "no-uid-conflict-vcard"

\* C7: the vCards that end with a success result and the vCards that end
\* with Forbidden are those of the same vCards sent in their first order;
\* compared are the orders in which bulkCreate returns and refuses no vCard
\* for a UID that is taken.
OrderIndependent ==
    pc = "done" =>
        LET own == [p \in 1..Len(items) |-> <<p, items[p]>>]
            ref == abBulkCreate(FreshLocals(Len(items), {}), own)
        IN  (ref.raised = NoRaise /\ NoUIDConflict(ref.xml) /\ NoUIDConflict(xmlresponses)) =>
               /\ CardsWith(xmlresponses, indexedComponents, "OK") = CardsWith(ref.xml, own, "OK")
               /\ CardsWith(xmlresponses, indexedComponents, "FORBIDDEN")
                     = CardsWith(ref.xml, own, "FORBIDDEN")

\* ================================================ collection storeRemove
batchOnlyVars == <<abook, method, items, xmlresponses, crudDeleteInfo, crudCreateInfo,
                   crudUpdateInfo, hasPrivilege, indexedComponents, error, coaddedUIDs,
                   groupRetries, objects, shared, storeUIDs, ctag, last, firstPass, checks,
                   iffy>>

\* a bound collection, owned or a sharee's, holding children 1..n
InitRemove ==
    /\ abook = FALSE
    /\ NoSide
    /\ shared = {}
    /\ BatchIdle
    /\ coll \in {[bound |-> TRUE, sharee |-> sh, backend |-> "present",
                  share |-> IF sh THEN "accepted" ELSE "none"] : sh \in BOOLEAN}
    /\ present \in {1..n : n \in 0..MaxChildren}
    /\ children = <<>>
    /\ errors = <<>>
    /\ NoObject

storeRemoveDeletesAlways(isSharee) == "delete"

\* "Check sharee collection first"
storeRemoveBranch(isSharee) == IF isSharee THEN "unshare" ELSE "delete"

\* sorted(children)
RECURSIVE Sorted(_)
Sorted(set) ==
    IF set = {} THEN <<>>
    ELSE LET least == CHOOSE x \in set : \A y \in set : x <= y
         IN  <<least>> \o Sorted(set \ {least})

storeRemoveChildRaises(queue, childurl, raised) == [errors |-> queue, raised |-> raised]

\* the try/except around child.storeRemove: a bare except, so nothing leaves
storeRemoveChildStep(queue, childurl, raised) ==
    IF raised # NoRaise
    THEN [errors |-> Append(queue, <<childurl, "BAD_REQUEST">>), raised |-> NoRaise]
    ELSE [errors |-> queue, raised |-> NoRaise]

\* ResponseQueue(uri, "DELETE", NO_CONTENT).response()
queueResponse(queue) == IF queue = <<>> THEN "NO_CONTENT" ELSE "MULTI_STATUS"

\* storeRemove up to its loop: the sharee path whole, or listChildren()
storeRemoveBegin ==
    /\ pc = "idle"
    /\ coll.bound
    /\ IF storeRemoveBranch(coll.sharee) = "unshare"
       THEN \E fault \in {"ok"} \cup StoreFaults :
               IF fault = "ok"
               THEN /\ coll' = [coll EXCEPT !.bound = FALSE, !.share = "removed"]
                    /\ response' = [status |-> "NO_CONTENT", ctag |-> 0, cause |-> None,
                                    at |-> None]
                    /\ pc' = "done"
                    /\ UNCHANGED <<children, errors, pos>>
               ELSE /\ Abort(fault, "removeShareeResource")
                    /\ UNCHANGED <<coll, children, errors, pos>>
       ELSE \E fault \in {"ok"} \cup StoreFaults :
               IF fault = "ok"
               THEN /\ children' = Sorted(present)
                    /\ errors' = <<>>
                    /\ pos' = 1
                    /\ pc' = IF present = {} THEN "removeSelf" ELSE "removeChild"
                    /\ UNCHANGED <<coll, response>>
               ELSE /\ Abort(fault, "listChildren")
                    /\ UNCHANGED <<coll, children, errors, pos>>
    /\ UNCHANGED <<sideVars, objectVars, batchOnlyVars, present, trace>>

\* request.locateChildResource raising: it is outside the try
storeRemoveLocateFails ==
    /\ pc = "removeChild"
    /\ pos <= Len(children)
    /\ \E fault \in StoreFaults : Abort(fault, "locateChildResource")
    /\ UNCHANGED <<sideVars, objectVars, batchOnlyVars, removeVars, pos, trace>>

\* one turn of the loop over the children
storeRemoveChild ==
    /\ pc = "removeChild"
    /\ pos <= Len(children)
    /\ \E fault \in {"ok", "NoSuchObjectResourceError"} \cup StoreFaults :
        LET child == children[pos]
            raised == storeRaise(fault, FALSE)
            step == storeRemoveChildStep(errors, child, raised)
        IN  /\ present' = IF raised = NoRaise THEN present \ {child} ELSE present
            /\ errors' = step.errors
            /\ trace' = Append(trace, [index |-> child, op |-> "storeRemove"])
            /\ IF step.raised # NoRaise
               THEN Abort(step.raised.type, "child") /\ UNCHANGED pos
               ELSE /\ pos' = pos + 1
                    /\ pc' = IF pos = Len(children) THEN "removeSelf" ELSE pc
                    /\ UNCHANGED response
    /\ UNCHANGED <<sideVars, objectVars, batchOnlyVars, coll, children>>

\* "Now do normal delete", the rebinding and errors.response()
storeRemoveSelf ==
    /\ pc = "removeSelf"
    /\ \E fault \in {"ok"} \cup StoreFaults :
        IF fault = "ok"
        THEN /\ coll' = [coll EXCEPT !.bound = FALSE, !.backend = "removed"]
             /\ response' = [status |-> queueResponse(errors), ctag |-> 0, cause |-> None,
                             at |-> None]
             /\ pc' = "done"
        ELSE /\ Abort(fault, "remove")
             /\ UNCHANGED coll
    /\ UNCHANGED <<sideVars, objectVars, batchOnlyVars, children, present, errors, pos, trace>>

NextRemove ==
    \/ storeRemoveBegin
    \/ storeRemoveLocateFails
    \/ storeRemoveChild
    \/ storeRemoveSelf

SpecRemove == InitRemove /\ [][NextRemove]_vars

Failed(queue) == {queue[j][1] : j \in 1..Len(queue)}

Tried == {trace[p].index : p \in 1..Len(trace)}

\* C9: deleting an owned collection calls storeRemove on every listed
\* child; a child whose removal raises gets a Bad-Request entry in the error
\* queue and never stops the loop; when storeRemove returns, every child was
\* tried, the backend collection is removed, the resource is rebound to
\* non-existent and the response is the queue's (multi-status if a child
\* failed).
CascadeRecoversChildFailures ==
    ~coll.sharee =>
        /\ pc = "aborted" => response.at # "child"
        /\ \A child \in Tried : (child \in present) <=> (child \in Failed(errors))
        /\ \A j \in 1..Len(errors) : errors[j][2] = "BAD_REQUEST"
        /\ Len(errors) = Cardinality(Failed(errors))
        /\ pc = "removeChild" => Len(trace) = pos - 1
        /\ pc \in {"removeSelf", "done"} =>
              /\ Len(trace) = Len(children)
              /\ \A j \in 1..Len(children) : trace[j].index = children[j]
        /\ pc = "done" =>
              /\ coll.backend = "removed"
              /\ ~coll.bound
              /\ response.status = IF errors = <<>> THEN "NO_CONTENT" ELSE "MULTI_STATUS"

\* a collection removed although its first child could not be and after a
\* later child was
RemovedAfterChildFailure ==
    /\ pc = "done"
    /\ Len(children) >= 2
    /\ children[1] \in present
    /\ children[2] \notin present
    /\ coll.backend = "removed"
    /\ response.status = "MULTI_STATUS"

\* C10: storeRemove on a sharee collection removes only the share: no child
\* is removed, the backend collection is not removed, and when it returns the
\* resource is rebound to non-existent and the response is No-Content.
ShareeOnlyUnshared ==
    coll.sharee =>
        /\ trace = <<>>
        /\ children = <<>>
        /\ coll.backend = "present"
        /\ pc \in {"idle", "done", "aborted"}
        /\ pc = "done" =>
              /\ ~coll.bound
              /\ coll.share = "removed"
              /\ response.status = "NO_CONTENT"

\* a sharee collection with children, unshared
ShareeUnsharedWithChildren ==
    /\ pc = "done"
    /\ coll.sharee
    /\ present # {}
    /\ ~coll.bound

\* ====================================================== object resources
\* entity tags and schedule tags of a backend object
ETags == {1, 2, 3}
ScheduleTags == {1, 2}

\* how an address-book object takes part in sharing: not at all, as the
\* sharee's view of a shared group, as the group that stands for a shared
\* address book in the sharee's home, or as a group its owner shares
ShareModes == {"none", "sharee", "group", "owner"}

\* sequences of entity tags, at most n long
TagSeqs(n) == UNION {[1..k -> ETags] : k \in 0..n}

\* the states of a backend object
StoreObjects(ab) ==
    [object : {TRUE}, etag : ETags, scheduleTag : IF ab THEN {NoToken} ELSE ScheduleTags,
     scheduleEtags : IF ab THEN {<<>>} ELSE TagSeqs(MaxScheduleEtags),
     share : IF ab THEN ShareModes ELSE {"none"}]

\* what the backend can make of a component it stored: any entity tag and
\* schedule tag, the sharing and the superseded entity tags as they were
Stored(ab, st) ==
    {o \in StoreObjects(ab) : o.share = st.share /\ o.scheduleEtags = st.scheduleEtags}

\* the exceptions a backend call on an object can raise
ObjectFaults ==
    {"LockTimeout", "InvalidObjectResourceError", "InvalidResourceMove",
     "NoSuchObjectResourceError", "ResourceDeletedError", "ValueError", "RuntimeError"}

\* the _metadata of a resource: the properties of _CalendarObjectMetaDataMixin
\* set on it while it has no store object
Metadata == {{}, {"accessMode"}}

existsAlways(r) == TRUE

\* self._newStoreObject is not None
exists(r) == r.storeObject # None

\* _initializeWithObject(storeObject, parent)
initializeWithObject(r, storeObject) == [r EXCEPT !.storeObject = storeObject]

\* the entries of StoreMoveExceptionsErrors that the model's faults can hit
StoreMoveExceptionsErrors(ab) ==
    [t \in {"ObjectResourceNameAlreadyExistsError", "InvalidResourceMove", "LockTimeout"} |->
        CASE t = "LockTimeout" -> [strategy |-> "unavailable", arg |-> "Lock timed out."]
          [] t = "InvalidResourceMove" -> [strategy |-> "error", arg |-> "valid-move"]
          [] OTHER -> [strategy |-> "status", arg |-> None]]

\* what a method of the resource hands back: the exception it raised or the
\* response code it returned, the backend calls it made in their order, the
\* resource and the backend object it leaves, what storeComponent returned
\* and the smartMerge option it was given, the check that refused it, and
\* whether it removed the parent collection, and what left the except
\* clauses around the backend call
Result(raised, code, calls, r, st) ==
    [raised |-> raised, code |-> code, calls |-> calls, resource |-> r, store |-> st,
     stored |-> None, smartMerge |-> None, at |-> None, parentRemoved |-> FALSE,
     thrown |-> NoRaise, headers |-> {}]

\* the exception that leaves the except clauses around a backend call
Thrown(res) == [res EXCEPT !.thrown = res.raised]

\* a request refused by the check named at, before any backend call
Refused(raised, at, r, st) == [Result(raised, None, <<>>, r, st) EXCEPT !.at = at]

\* a storeComponent that binds the resource before the backend answered
storeComponentBindsFirst(ab, r, st, fault, new) ==
    LET call == IF exists(r) THEN "setComponent" ELSE "createObjectResourceWithName"
        bound == [initializeWithObject(r, "object") EXCEPT !.metadata = {}]
    IN  IF fault # "ok"
        THEN Thrown(Result(handleStoreException(fault, StoreExceptionsErrors(ab)), None,
                           <<call>>, bound, st))
        ELSE Result(NoRaise, IF exists(r) THEN "NO_CONTENT" ELSE "CREATED", <<call>>, bound,
                    new)

\* _CommonObjectResource.storeComponent; new is the backend's object after
\* the call
storeComponent(ab, r, st, fault, new) ==
    LET call == IF exists(r) THEN "setComponent" ELSE "createObjectResourceWithName"
    IN  IF fault # "ok"
        THEN Thrown(Result(handleStoreException(fault, StoreExceptionsErrors(ab)), None,
                           <<call>>, r, st))
        ELSE IF exists(r)
        THEN Result(NoRaise, "NO_CONTENT", <<call>>, r, new)
        ELSE Result(NoRaise, "CREATED", <<call>>, initializeWithObject(r, "object"), new)

\* _CommonObjectResource.storeMove
storeMove(r, st, fault) ==
    IF fault # "ok" THEN Result(Exception(fault), None, <<"moveTo">>, r, st)
    ELSE Result(NoRaise, "CREATED", <<"moveTo">>, r, st)

\* _CommonObjectResource.storeRemove
storeRemove(ab, r, st, fault) ==
    IF fault = "NoSuchObjectResourceError"
    THEN Thrown(Result(HTTPStatusError("NOT_FOUND"), None, <<"remove">>, r, st))
    ELSE IF fault # "ok"
    THEN Thrown(Result(handleStoreException(fault, StoreExceptionsErrors(ab)), None,
                       <<"remove">>, r, st))
    ELSE Result(NoRaise, "NO_CONTENT", <<"remove">>, initializeWithObject(r, None),
                NoStoreObject)

\* ------------------------------------------------------------- sharing
\* isShareeResource(), isSharedByOwner() and
\* _newStoreObject.isGroupForSharedAddressBook(): the sharing of the object
\* the resource is bound to
isShareeResource(r, st) == exists(r) /\ st.share = "sharee"

isSharedByOwner(r, st) == exists(r) /\ st.share = "owner"

isGroupForSharedAddressBook(r, st) == st.share = "group"

\* the calls AddressBookObjectResource.storeRemove makes for a shared object
SharingCalls == {"removeShareeResource", "abCollectionResource.storeRemove", "downgradeFromShare"}

\* the exceptions removeShareeResource, downgradeFromShare and the
\* collection's storeRemove can let through
ShareFaults == {"LockTimeout", "RuntimeError"}

\* AddressBookObjectResource.storeRemove: shareFault is what the sharing
\* call raised, fault what the backend's remove() raised
abStoreRemove(r, st, shareFault, fault) ==
    IF isShareeResource(r, st)
    THEN IF shareFault # "ok"
         THEN Result(Exception(shareFault), None, <<"removeShareeResource">>, r, st)
         ELSE Result(NoRaise, "NO_CONTENT", <<"removeShareeResource">>,
                     initializeWithObject(r, None), NoStoreObject)
    ELSE IF isGroupForSharedAddressBook(r, st)
    THEN IF shareFault # "ok"
         THEN Result(Exception(shareFault), None, <<"abCollectionResource.storeRemove">>,
                     r, st)
         ELSE [Result(NoRaise, "NO_CONTENT", <<"abCollectionResource.storeRemove">>, r,
                      NoStoreObject) EXCEPT !.parentRemoved = TRUE]
    ELSE IF isSharedByOwner(r, st)
    THEN IF shareFault # "ok"
         THEN Result(Exception(shareFault), None, <<"downgradeFromShare">>, r, st)
         ELSE LET rest == storeRemove(TRUE, r, [st EXCEPT !.share = "none"], fault)
              IN  [rest EXCEPT !.calls = <<"downgradeFromShare">> \o @]
    ELSE storeRemove(TRUE, r, st, fault)

\* ------------------------------------------------------- schedule tags
\* _MetadataProperty: read from the backend object when bound, else from the
\* resource's own metadata, which holds none
scheduleTag(r, st) == IF exists(r) THEN st.scheduleTag ELSE NoToken

scheduleEtags(r, st) == IF exists(r) THEN st.scheduleEtags ELSE <<>>

validIfScheduleMatchCompatible(r, st, compatibility, header, ifMatch) ==
    IF header # NoToken /\ scheduleTag(r, st) # header
    THEN [raised |-> HTTPStatusError("PRECONDITION_FAILED"), value |-> None]
    ELSE [raised |-> NoRaise, value |-> TRUE]

\* CalendarObjectResource.validIfScheduleMatch: header is the request's
\* If-Schedule-Tag-Match, ifMatch its If-Match
validIfScheduleMatch(r, st, compatibility, header, ifMatch) ==
    IF header # NoToken
    THEN IF scheduleTag(r, st) # header
         THEN [raised |-> HTTPStatusError("PRECONDITION_FAILED"), value |-> None]
         ELSE [raised |-> NoRaise, value |-> TRUE]
    ELSE IF compatibility
    THEN [raised |-> NoRaise, value |-> ifMatch # NoToken]
    ELSE [raised |-> NoRaise, value |-> FALSE]

\* ------------------------------------------------------------ GET, Prefer
\* _CommonObjectResource.render
render(r, st, accept) ==
    IF ~exists(r) THEN Result(HTTPStatusError("NOT_FOUND"), None, <<>>, r, st)
    ELSE IF accept = "unacceptable"
    THEN Result(HTTPStatusError("NOT_ACCEPTABLE"), None, <<>>, r, st)
    ELSE Result(NoRaise, "OK", <<"componentForUser">>, r, st)

\* _processPrefer, given the response of a request that was carried out
\* (res.code) or the Precondition-Failed response of one that was refused:
\* http_GET renders the resource
processPrefer(res, code, prefer, accept) ==
    IF prefer /\ code \in {"CREATED", "NO_CONTENT", "OK", "PRECONDITION_FAILED"}
    THEN LET get == render(res.resource, res.store, accept)
         IN  IF get.raised # NoRaise
             THEN [res EXCEPT !.raised = get.raised, !.code = None,
                              !.calls = @ \o get.calls]
             ELSE [res EXCEPT !.code = IF code \in {"CREATED", "PRECONDITION_FAILED"}
                                         THEN code ELSE get.code,
                              !.calls = @ \o get.calls]
    ELSE [res EXCEPT !.code = code]

\* "except HTTPError as e: if e.response.code == PRECONDITION_FAILED:
\* response = _processPrefer(request, e.response); raise HTTPError(response)"
refusePrefer(r, st, prefer, accept) ==
    LET res == processPrefer(Result(NoRaise, None, <<>>, r, st), "PRECONDITION_FAILED",
                             prefer, accept)
    IN  IF res.raised # NoRaise THEN res
        ELSE [res EXCEPT !.raised = HTTPStatusError("PRECONDITION_FAILED"), !.code = None]

\* ------------------------------------------------------------ requests
\* the destinations of a MOVE
Destinations ==
    {NoDestination, [NoDestination EXCEPT !.header = TRUE]}
        \cup [header : {TRUE}, found : {TRUE}, exists : BOOLEAN, isCollection : BOOLEAN,
              sameHome : BOOLEAN]

\* the Overwrite header
Overwrites == {"unset", "T", "F"}

\* ---------------------------------------------------------- http_DELETE
\* _CommonObjectResource.http_DELETE behind
\* @requiresPermissions(fromParent=[davxml.Unbind()])
http_DELETE(ab, r, st, req) ==
    IF req.auth # NoRaise THEN Refused(req.auth, "authorize", r, st)
    ELSE IF ~exists(r) THEN Refused(HTTPStatusError("NOT_FOUND"), "exists", r, st)
    ELSE IF ab THEN abStoreRemove(r, st, req.shareFault, req.fault)
    ELSE storeRemove(FALSE, r, st, req.fault)

\* CalendarObjectResource.http_DELETE
calendar_http_DELETE(r, st, compatibility, req) ==
    IF req.auth # NoRaise THEN Refused(req.auth, "authorize", r, st)
    ELSE IF ~exists(r) THEN Refused(HTTPStatusError("NOT_FOUND"), "exists", r, st)
    ELSE LET v == validIfScheduleMatch(r, st, compatibility, req.ifScheduleTagMatch,
                                       req.ifMatch)
         IN  IF v.raised # NoRaise THEN Refused(v.raised, "validIfScheduleMatch", r, st)
             ELSE storeRemove(FALSE, r, st, req.fault)

\* AddressBookObjectResource.http_DELETE
addressbook_http_DELETE(r, st, req) ==
    IF isShareeResource(r, st) \/ (exists(r) /\ isGroupForSharedAddressBook(r, st))
    THEN abStoreRemove(r, st, req.shareFault, req.fault)
    ELSE http_DELETE(TRUE, r, st, req)

\* ------------------------------------------------------------ http_MOVE
getHeaderOverwriteFalse(overwrite) == overwrite = "T"

\* request.headers.getHeader("overwrite", True): the parsed Overwrite header,
\* True when the request has none
getHeaderOverwrite(overwrite) == overwrite # "F"

http_MOVEAuthorizeFirst(ab, r, st, req) ==
    LET d == req.destination
    IN  IF ~exists(r) THEN Refused(HTTPStatusError("NOT_FOUND"), "exists", r, st)
        ELSE IF req.auth # NoRaise THEN Refused(req.auth, "unbind", r, st)
        ELSE IF req.bind # NoRaise THEN Refused(req.bind, "bind", r, st)
        ELSE IF ~d.header \/ ~d.found
        THEN Refused(HTTPStatusError("BAD_REQUEST"), "destination", r, st)
        ELSE IF d.exists
        THEN Refused(HTTPStatusError(IF getHeaderOverwrite(req.overwrite) THEN "FORBIDDEN"
                                     ELSE "PRECONDITION_FAILED"), "overwrite", r, st)
        ELSE IF ~d.isCollection \/ ~d.sameHome
        THEN Refused(HTTPStatusError("FORBIDDEN"), "parent", r, st)
        ELSE LET m == storeMove(r, st, req.fault)
             IN  IF m.raised # NoRaise
                 THEN Thrown([m EXCEPT !.raised = handleStoreException(req.fault,
                                                       StoreMoveExceptionsErrors(ab))])
                 ELSE [m EXCEPT !.resource = initializeWithObject(r, None),
                                !.store = NoStoreObject]

\* _CommonObjectResource.http_MOVE
http_MOVE(ab, r, st, req) ==
    LET d == req.destination
    IN  IF ~exists(r) THEN Refused(HTTPStatusError("NOT_FOUND"), "exists", r, st)
        ELSE IF ~d.header THEN Refused(HTTPStatusError("BAD_REQUEST"), "header", r, st)
        ELSE IF ~d.found THEN Refused(HTTPStatusError("BAD_REQUEST"), "destination", r, st)
        ELSE IF d.exists
        THEN Refused(HTTPStatusError(IF getHeaderOverwrite(req.overwrite) THEN "FORBIDDEN"
                                     ELSE "PRECONDITION_FAILED"), "overwrite", r, st)
        ELSE IF ~d.isCollection
        THEN Refused(HTTPStatusError("FORBIDDEN"), "isCollection", r, st)
        ELSE IF ~d.sameHome THEN Refused(HTTPStatusError("FORBIDDEN"), "sameHome", r, st)
        ELSE IF req.auth # NoRaise THEN Refused(req.auth, "unbind", r, st)
        ELSE IF req.bind # NoRaise THEN Refused(req.bind, "bind", r, st)
        ELSE LET m == storeMove(r, st, req.fault)
             IN  IF m.raised # NoRaise
                 THEN Thrown([m EXCEPT !.raised = handleStoreException(req.fault,
                                                       StoreMoveExceptionsErrors(ab))])
                 ELSE [m EXCEPT !.resource = initializeWithObject(r, None),
                                !.store = NoStoreObject]

\* CalendarObjectResource.http_MOVE
calendar_http_MOVE(r, st, compatibility, req) ==
    IF ~exists(r) THEN Refused(HTTPStatusError("NOT_FOUND"), "exists", r, st)
    ELSE LET v == validIfScheduleMatch(r, st, compatibility, req.ifScheduleTagMatch,
                                       req.ifMatch)
         IN  IF v.raised # NoRaise THEN Refused(v.raised, "validIfScheduleMatch", r, st)
             ELSE http_MOVE(FALSE, r, st, req)

\* ------------------------------------------------------- PUT and PATCH
\* what a request body can be: a component, a body of a media type the
\* collection does not take, no data, text that does not parse, a patch that
\* is invalid or cannot be applied
Bodies == {"ok", "badtype", "nodata", "invalid", "badpatch", "unappliable"}

\* a handler of ResourceDeletedError that answers but keeps the store object
resourceDeletedKeepsObject(res, r) ==
    [res EXCEPT !.raised = NoRaise,
                !.code = IF exists(res.resource) THEN "NO_CONTENT" ELSE "CREATED"]

\* "except ResourceDeletedError": the PUT is made to look like it succeeded;
\* res is what storeComponent left, r the resource the handler was called on
resourceDeleted(res, r) ==
    [res EXCEPT !.raised = NoRaise,
                !.code = IF exists(res.resource) THEN "NO_CONTENT" ELSE "CREATED",
                !.resource = initializeWithObject(res.resource, None),
                !.store = NoStoreObject]

\* CalendarObjectResource.putOrPatch
putOrPatch(meth, r, st, compatibility, req, new) ==
    LET v == validIfScheduleMatch(r, st, compatibility, req.ifScheduleTagMatch, req.ifMatch)
        read == IF meth = "PATCH" THEN <<"componentForUser">> ELSE <<>>
    IN  IF v.raised # NoRaise
        THEN [refusePrefer(r, st, req.prefer, req.accept) EXCEPT !.at = "validIfScheduleMatch"]
        ELSE IF req.body \in {"nodata", "invalid"}
        THEN Refused(HTTPErrorResponse("FORBIDDEN", "valid-calendar-data"), "data", r, st)
        ELSE IF meth = "PATCH" /\ req.body \in {"badpatch", "unappliable"}
        THEN [Refused(HTTPErrorResponse(IF req.body = "badpatch" THEN "BAD_REQUEST"
                                        ELSE "UNPROCESSABLE_ENTITY", "valid-calendar-data"),
                      "patch", r, st) EXCEPT !.calls = read]
        ELSE LET s == storeComponent(FALSE, r, st, req.fault, new)
                 res == [s EXCEPT !.smartMerge = v.value, !.stored = s.code,
                                  !.calls = read \o @]
             IN  IF req.fault = "ResourceDeletedError" THEN resourceDeleted(res, r)
                 ELSE IF req.fault = "ValueError"
                 THEN [res EXCEPT !.raised = HTTPStatusError("BAD_REQUEST")]
                 ELSE IF s.raised # NoRaise THEN res
                 ELSE processPrefer(res, s.code, req.prefer, req.accept)

\* CalendarObjectResource.http_PUT
http_PUT(r, st, compatibility, req, new) ==
    IF req.body = "badtype"
    THEN Refused(HTTPErrorResponse("FORBIDDEN", "supported-calendar-data"), "content-type",
                 r, st)
    ELSE putOrPatch("PUT", r, st, compatibility, req, new)

\* a PATCH that looks for the resource before it looks at the flag
http_PATCHExistsFirst(r, st, enabled, compatibility, req, new) ==
    IF ~exists(r) THEN Refused(HTTPStatusError("NOT_FOUND"), "exists", r, st)
    ELSE IF ~enabled THEN Refused(HTTPStatusError("NOT_ALLOWED"), "enabled", r, st)
    ELSE putOrPatch("PATCH", r, st, compatibility, req, new)

\* CalendarObjectResource.http_PATCH
http_PATCH(r, st, enabled, compatibility, req, new) ==
    IF ~enabled THEN Refused(HTTPStatusError("NOT_ALLOWED"), "enabled", r, st)
    ELSE IF ~exists(r) THEN Refused(HTTPStatusError("NOT_FOUND"), "exists", r, st)
    ELSE IF req.body = "badtype"
    THEN Refused(HTTPErrorResponse("UNSUPPORTED_MEDIA_TYPE", "supported-calendar-data"),
                 "content-type", r, st)
    ELSE putOrPatch("PATCH", r, st, compatibility, req, new)

\* the exceptions AddressBookObjectResource.http_PUT turns into Forbidden
AddressBookFaults == {"KindChangeNotAllowedError", "GroupWithUnsharedAddressNotAllowedError"}

\* AddressBookObjectResource.http_PUT
addressbook_http_PUT(r, st, req, new) ==
    IF req.body = "badtype"
    THEN Refused(HTTPErrorResponse("FORBIDDEN", "supported-address-data"), "content-type",
                 r, st)
    ELSE IF req.body \in {"nodata", "invalid"}
    THEN Refused(HTTPErrorResponse("FORBIDDEN", "valid-address-data"), "data", r, st)
    ELSE LET s == storeComponent(TRUE, r, st, req.fault, new)
             res == [s EXCEPT !.stored = s.code]
         IN  IF req.fault = "ResourceDeletedError" THEN resourceDeleted(res, r)
             ELSE IF req.fault \in AddressBookFaults
             THEN [res EXCEPT !.raised = HTTPStatusError("FORBIDDEN")]
             ELSE IF req.fault = "ValueError"
             THEN [res EXCEPT !.raised = HTTPStatusError("BAD_REQUEST")]
             ELSE IF s.raised # NoRaise THEN res
             ELSE processPrefer(res, s.code, req.prefer, req.accept)

\* ---------------------------------------------------------------- split
\* CalendarObjectResource.POST_handler_split behind
\* @requiresPermissions(davxml.WriteContent()); new is the backend's object
\* after splitAt
POST_handler_split(r, st, compatibility, req, new) ==
    IF req.auth # NoRaise THEN Refused(req.auth, "authorize", r, st)
    ELSE IF ~exists(r) THEN Refused(HTTPStatusError("NOT_FOUND"), "exists", r, st)
    ELSE LET v == validIfScheduleMatch(r, st, compatibility, req.ifScheduleTagMatch,
                                       req.ifMatch)
         IN  IF v.raised # NoRaise
             THEN [refusePrefer(r, st, req.prefer, req.accept)
                      EXCEPT !.at = "validIfScheduleMatch"]
             ELSE IF req.rid # "ok"
             THEN Refused(HTTPErrorResponse("FORBIDDEN", "valid-rid-parameter"), "rid", r, st)
             ELSE IF req.fault = "InvalidSplit"
             THEN Result(HTTPErrorResponse("FORBIDDEN", "valid-split"), None, <<"splitAt">>,
                         r, st)
             ELSE IF req.fault # "ok"
             THEN Result(Exception(req.fault), None, <<"splitAt">>, r, st)
             ELSE IF ~req.prefer THEN Result(NoRaise, "NO_CONTENT", <<"splitAt">>, r, new)
             ELSE IF req.accept = "unacceptable"
             THEN Result(HTTPStatusError("NOT_ACCEPTABLE"), None, <<"splitAt">>, r, new)
             ELSE Result(NoRaise, "MULTI_STATUS", <<"splitAt", "componentForUser">>, r, new)

\* ------------------------------------------------- managed attachments
\* the managed-id values of requests and of the backend
ManagedIDs == {"m1", "m2"}

\* the action parameter of a POST
Actions ==
    {"split", "attachment-add", "attachment-update", "attachment-remove",
     "attachment-other", "other"}

\* action.startswith("attachment-")
startswithAttachment(action) ==
    action \in {"attachment-add", "attachment-update", "attachment-remove",
                "attachment-other"}

\* the dict valid_preconditions of POST_handler_attachment
valid_preconditions ==
    [a \in {"attachment-add", "attachment-update", "attachment-remove"} |->
        CASE a = "attachment-add" -> "valid-attachment-add"
          [] a = "attachment-update" -> "valid-attachment-update"
          [] OTHER -> "valid-attachment-remove"]

\* CalendarObjectResource.StoreAttachmentValidErrors
StoreAttachmentValidErrors == {"AttachmentStoreFailed", "InvalidAttachmentOperation"}

\* CalendarObjectResource.StoreAttachmentExceptionsErrors
StoreAttachmentExceptionsErrors ==
    [t \in {"AttachmentStoreValidManagedID", "AttachmentRemoveFailed"} |->
        [strategy |-> "error",
         arg |-> IF t = "AttachmentRemoveFailed" THEN "valid-attachment-remove"
                 ELSE "valid-managed-id-parameter"]]

\* what addAttachment, updateAttachment and removeAttachment can raise
AttachmentStoreFaults ==
    {"AttachmentSizeTooLarge", "QuotaExceeded", "AttachmentStoreFailed",
     "AttachmentStoreValidManagedID", "AttachmentRemoveFailed", "LockTimeout", "RuntimeError"}

\* what leaves the except clauses of POST_handler_attachment when the try
\* block raised an exception of type err: a backend exception or, for
\* "HTTPError", the HTTPError e of one of the parameter checks
attachmentExcept(err, e, action) ==
    IF err = "AttachmentSizeTooLarge" THEN HTTPErrorResponse("FORBIDDEN", "max-attachment-size")
    ELSE IF err = "QuotaExceeded"
    THEN HTTPErrorResponse("INSUFFICIENT_STORAGE_SPACE", "quota-not-exceeded")
    ELSE IF action \notin DOMAIN valid_preconditions THEN Exception("KeyError")
    ELSE IF err \in StoreAttachmentValidErrors
    THEN storeExceptionError(err, valid_preconditions[action])
    ELSE IF err \in DOMAIN StoreAttachmentExceptionsErrors
    THEN handleStoreException(err, StoreAttachmentExceptionsErrors)
    ELSE IF err \in DOMAIN StoreExceptionsErrors(FALSE)
    THEN handleStoreException(err, StoreExceptionsErrors(FALSE))
    ELSE IF err = "HTTPError" THEN e
    ELSE Exception(err)

\* _getRIDs: a rid parameter either does not parse or names instances, which
\* the server does not support
getRIDs(req) ==
    IF req.rid \in {None, "missing"} THEN NoRaise
    ELSE HTTPErrorResponse("FORBIDDEN", "valid-rid-parameter")

\* _getMID
getMID(req) ==
    IF req.mid = None THEN HTTPErrorResponse("FORBIDDEN", "valid-managed-id-parameter")
    ELSE NoRaise

\* the managed-id the backend gives a new or updated attachment
managedID(ids) == IF "m1" \in ids THEN "m2" ELSE "m1"

\* CalendarObjectResource.POST_handler_attachment behind
\* @requiresPermissions(davxml.WriteContent()); ids are the managed
\* attachments the backend holds for the object, and the store of the result
POST_handler_attachment(r, ids, enabled, req) ==
    LET action == req.action
        refused(e) == Result(attachmentExcept("HTTPError", e, action), None, <<>>, r, ids)
        done(code, call, after, headers) ==
            IF req.fault # "ok"
            THEN Result(attachmentExcept(req.fault, NoRaise, action), None, <<call>>, r, ids)
            ELSE [processPrefer(Result(NoRaise, None, <<call>>, r, after), code, req.prefer,
                                req.accept) EXCEPT !.headers = headers]
    IN  IF req.auth # NoRaise THEN Refused(req.auth, "authorize", r, ids)
        ELSE IF ~enabled THEN [Refused(NoRaise, "enabled", r, ids) EXCEPT !.code = "FORBIDDEN"]
        ELSE IF ~exists(r) THEN Refused(HTTPStatusError("NOT_FOUND"), "exists", r, ids)
        ELSE IF action = "attachment-add"
        THEN IF getRIDs(req) # NoRaise THEN refused(getRIDs(req))
             ELSE done("CREATED", "addAttachment", ids \cup {managedID(ids)},
                       {"Location", "Cal-Managed-ID"})
        ELSE IF action = "attachment-update"
        THEN IF getMID(req) # NoRaise THEN refused(getMID(req))
             ELSE done("NO_CONTENT", "updateAttachment",
                       (ids \ {req.mid}) \cup {managedID(ids \ {req.mid})},
                       {"Location", "Cal-Managed-ID"})
        ELSE IF action = "attachment-remove"
        THEN IF getRIDs(req) # NoRaise THEN refused(getRIDs(req))
             ELSE IF getMID(req) # NoRaise THEN refused(getMID(req))
             ELSE done("NO_CONTENT", "removeAttachment", ids \ {req.mid}, {})
        ELSE refused(HTTPErrorResponse("FORBIDDEN", "valid-action-parameter"))

\* CalendarObjectResource.POST_handler_action
POST_handler_action(r, st, ids, cfg, req, new) ==
    IF startswithAttachment(req.action)
    THEN POST_handler_attachment(r, ids, cfg.EnableManagedAttachments, req)
    ELSE IF req.action = "split"
    THEN POST_handler_split(r, st, cfg.ScheduleTagCompatibility, req, new)
    ELSE Refused(HTTPErrorResponse("FORBIDDEN", "valid-action-parameter"), "action", r, st)

\* -------------------------------------------------------- preconditions
\* http.checkPreconditions(request, entityExists, etag, lastModified) for a
\* request whose conditional headers are If-Match and If-None-Match
httpCheckPreconditions(meth, ifMatch, ifNoneMatch, entityExists, etag) ==
    IF ifMatch # NoToken /\ (~entityExists \/ ifMatch # etag)
    THEN HTTPStatusError("PRECONDITION_FAILED")
    ELSE IF ifNoneMatch # NoToken /\ entityExists /\ ifNoneMatch = etag
    THEN HTTPStatusError(IF meth \in {"GET", "HEAD"} THEN "NOT_MODIFIED"
                         ELSE "PRECONDITION_FAILED")
    ELSE NoRaise

\* "for etag in etags: try: http.checkPreconditions(...) except HTTPError, e:
\* last_exception = e; else: break; else: if last_exception: raise
\* last_exception"
RECURSIVE checkEachEtag(_, _, _, _, _, _)
checkEachEtag(etags, meth, ifMatch, ifNoneMatch, entityExists, last_exception) ==
    IF etags = <<>> THEN last_exception
    ELSE LET e == httpCheckPreconditions(meth, ifMatch, ifNoneMatch, entityExists,
                                         Head(etags))
         IN  IF e = NoRaise THEN NoRaise
             ELSE checkEachEtag(Tail(etags), meth, ifMatch, ifNoneMatch, entityExists, e)

\* CalendarObjectResource._checkPreconditions
calendar_checkPreconditions(r, st, compatibility, meth, ifMatch, ifNoneMatch) ==
    IF compatibility /\ exists(r) /\ Len(scheduleEtags(r, st)) > 1
    THEN IF meth \notin {"GET", "HEAD"}
         THEN checkEachEtag(<<st.etag>> \o scheduleEtags(r, st), meth, ifMatch, ifNoneMatch,
                            exists(r), NoRaise)
         ELSE NoRaise
    ELSE httpCheckPreconditions(meth, ifMatch, ifNoneMatch, exists(r), st.etag)

\* CalendarObjectResource.checkPreconditions
checkPreconditions(r, st, compatibility, req) ==
    LET e == calendar_checkPreconditions(r, st, compatibility, req.method, req.ifMatch,
                                         req.ifNoneMatch)
    IN  IF e = NoRaise THEN Result(NoRaise, None, <<>>, r, st)
        ELSE IF e # HTTPStatusError("PRECONDITION_FAILED")
        THEN Refused(e, "checkPreconditions", r, st)
        ELSE [refusePrefer(r, st, req.prefer, req.accept) EXCEPT !.at = "checkPreconditions"]

\* ---------------------------------------------------------- collections
CollectionNames == {"a", "b"}

\* the exceptions a backend call on a collection can raise
CollectionFaults == {"LockTimeout", "RuntimeError"}

\* StoreExceptionsErrors of the collection classes: CalendarCollectionResource
\* has entries, the others inherit the empty map
CollectionStoreExceptionsErrors(kind) ==
    [t \in IF kind = "calendar" THEN {"LockTimeout", "AlreadyInTrashError"} ELSE {} |->
        IF t = "LockTimeout" THEN [strategy |-> "unavailable", arg |-> "Lock timed out."]
        ELSE [strategy |-> "error", arg |-> "not-in-trash"]]

\* what a method of a collection hands back
CollectionResult(raised, code, calls, c, at) ==
    [raised |-> raised, code |-> code, calls |-> calls, collection |-> c, at |-> at,
     thrown |-> IF at = "handleStoreException" THEN raised ELSE NoRaise]

\* _CommonHomeChildCollectionMixin.http_DELETE behind
\* @requiresPermissions(fromParent=[davxml.Unbind()]), on a collection with no
\* children; StoreScheduleInboxResource.http_DELETE
collection_http_DELETE(c, req) ==
    IF c.kind = "inbox" THEN CollectionResult(NoRaise, "FORBIDDEN", <<>>, c, "inbox")
    ELSE IF req.auth # NoRaise THEN CollectionResult(req.auth, None, <<>>, c, "authorize")
    ELSE IF ~c.bound
    THEN CollectionResult(HTTPStatusError("NOT_FOUND"), None, <<>>, c, "exists")
    ELSE IF req.depth # "infinity"
    THEN CollectionResult(HTTPStatusError("BAD_REQUEST"), None, <<>>, c, "depth")
    ELSE LET call == IF storeRemoveBranch(c.sharee) = "unshare"
                     THEN <<"removeShareeResource">> ELSE <<"listChildren", "remove">>
         IN  IF req.fault # "ok"
             THEN CollectionResult(handleStoreException(req.fault,
                                       CollectionStoreExceptionsErrors(c.kind)),
                                   None, call, c, "handleStoreException")
             ELSE CollectionResult(NoRaise, "NO_CONTENT", call, [c EXCEPT !.bound = FALSE],
                                   None)

\* _CommonHomeChildCollectionMixin.http_MOVE, and the http_MOVE of
\* AddressBookCollectionResource and StoreScheduleInboxResource
collection_http_MOVE(c, req) ==
    LET d == req.destination
    IN  IF c.kind # "calendar" THEN CollectionResult(NoRaise, "FORBIDDEN", <<>>, c, "kind")
        ELSE IF ~c.bound
        THEN CollectionResult(HTTPStatusError("NOT_FOUND"), None, <<>>, c, "exists")
        ELSE IF ~d.header
        THEN CollectionResult(Exception("AttributeError"), None, <<>>, c, "header")
        ELSE IF ~d.sameHome THEN CollectionResult(NoRaise, "FORBIDDEN", <<>>, c, "sameHome")
        ELSE IF ~d.found
        THEN CollectionResult(Exception("AttributeError"), None, <<>>, c, "destination")
        ELSE IF d.exists THEN CollectionResult(NoRaise, "FORBIDDEN", <<>>, c, "overwrite")
        ELSE IF req.fault # "ok"
        THEN CollectionResult(Exception(req.fault), None, <<"rename">>, c, None)
        ELSE CollectionResult(NoRaise, "NO_CONTENT", <<"rename">>,
                              [c EXCEPT !.name = CHOOSE n \in CollectionNames : n # c.name],
                              None)

\* -------------------------------------------------------------- actions
\* the parent collection can hold the object resource
ParentHolds == collection.bound /\ collection.kind # "inbox"

\* the parent collection has no children
NoChildren == ~exists(resource) /\ store = NoStoreObject

\* an object resource, bound to a backend object or not, and its parent
\* collection, a calendar, an inbox or an address book
InitObject ==
    /\ abook \in BOOLEAN
    /\ NoSide
    /\ shared = {}
    /\ BatchIdle
    /\ NoRemove
    /\ collection \in [kind : IF abook THEN {"addressbook"} ELSE {"calendar", "inbox"},
                       bound : BOOLEAN, sharee : BOOLEAN, name : {"a"}]
    /\ \/ /\ resource \in [storeObject : {None},
                            metadata : IF abook THEN {{}} ELSE Metadata]
          /\ store = NoStoreObject
       \/ /\ ParentHolds
          /\ resource = [storeObject |-> "object", metadata |-> {}]
          /\ store \in {o \in StoreObjects(abook) : o.scheduleEtags = <<>>}
          /\ store.share = "group" => collection.sharee
    /\ request = NoRequest
    /\ outcome = NoOutcome
    /\ config \in [ScheduleTagCompatibility : BOOLEAN, EnableCalendarObject : BOOLEAN,
                    EnableManagedAttachments : {TRUE},
                    EnableProxyPrincipals : {FALSE}]

\* a request on the object resource was answered with res; an exception
\* that no backend call raised is not drawn, nor an Accept header without
\* Prefer or an Overwrite header without a destination it could overwrite
Answer(req, res) ==
    /\ ParentHolds
    /\ res.calls = <<>> => req.fault = "ok"
    /\ req.shareFault # "ok" => res.calls # <<>> /\ res.calls[1] \in SharingCalls
    /\ ~req.prefer => req.accept = "ok"
    /\ ~req.destination.exists => req.overwrite = "unset"
    /\ request' = req
    /\ outcome' = [method |-> req.method, was |-> resource.storeObject # None,
                   tag |-> scheduleTag(resource, store), raised |-> res.raised,
                   code |-> res.code, calls |-> res.calls, stored |-> res.stored,
                   smartMerge |-> res.smartMerge, at |-> res.at, thrown |-> res.thrown,
                   headers |-> {}, metadata |-> resource.metadata]
    /\ resource' = res.resource
    /\ store' = res.store
    /\ collection' = IF res.parentRemoved THEN [collection EXCEPT !.bound = FALSE]
                      ELSE collection
    /\ UNCHANGED <<sideVars, batchVars, removeVars, config>>

\* a request on the collection was answered with res
AnswerCollection(req, res) ==
    /\ NoChildren
    /\ res.calls = <<>> => req.fault = "ok"
    /\ request' = req
    /\ outcome' = [NoOutcome EXCEPT !.method = req.method, !.was = collection.bound,
                                    !.raised = res.raised, !.code = res.code,
                                    !.calls = res.calls, !.at = res.at,
                                    !.thrown = res.thrown]
    /\ collection' = res.collection
    /\ UNCHANGED <<sideVars, batchVars, removeVars, resource, store, config>>

\* the response was sent: the request is over
requestDone ==
    /\ request # NoRequest
    /\ request' = NoRequest
    /\ outcome' = NoOutcome
    /\ UNCHANGED <<sideVars, batchVars, removeVars, resource, store, collection, config>>

Faults == {"ok"} \cup ObjectFaults

\* the If-Match header of a request a handler is given: absent or present
IfMatches == {NoToken, 1}

GET ==
    /\ request = NoRequest
    /\ \E accept \in {"ok", "unacceptable"} :
            LET req == [NoRequest EXCEPT !.method = "GET", !.accept = accept]
            IN  Answer(req, render(resource, store, accept))

PUT ==
    /\ request = NoRequest
    /\ \E tag \in {NoToken} \cup ScheduleTags, ifMatch \in IfMatches,
           prefer \in BOOLEAN, accept \in {"ok", "unacceptable"},
           body \in Bodies \ {"badpatch", "unappliable"},
           fault \in Faults \cup (IF abook THEN AddressBookFaults ELSE {}) :
          \E new \in IF fault = "ok" /\ body = "ok" THEN Stored(abook, store) ELSE {store} :
            LET req == [NoRequest EXCEPT !.method = "PUT", !.ifScheduleTagMatch = tag,
                                         !.ifMatch = ifMatch, !.prefer = prefer,
                                         !.accept = accept, !.body = body, !.fault = fault]
            IN  /\ abook => tag = NoToken /\ ifMatch = NoToken
                /\ Answer(req, IF abook THEN addressbook_http_PUT(resource, store, req, new)
                               ELSE http_PUT(resource, store, config.ScheduleTagCompatibility,
                                             req, new))

PATCH ==
    /\ request = NoRequest
    /\ ~abook
    /\ \E tag \in {NoToken} \cup ScheduleTags, ifMatch \in IfMatches,
          prefer \in BOOLEAN, accept \in {"ok", "unacceptable"}, body \in Bodies,
          fault \in Faults :
      \E new \in IF fault = "ok" /\ body = "ok" THEN Stored(abook, store) ELSE {store} :
        LET req == [NoRequest EXCEPT !.method = "PATCH", !.ifScheduleTagMatch = tag,
                                     !.ifMatch = ifMatch, !.prefer = prefer,
                                     !.accept = accept, !.body = body, !.fault = fault]
        IN  Answer(req, http_PATCH(resource, store, config.EnableCalendarObject,
                                   config.ScheduleTagCompatibility, req, new))

DELETE ==
    /\ request = NoRequest
    /\ \E auth \in AuthorizeOutcomes, tag \in {NoToken} \cup ScheduleTags,
           ifMatch \in IfMatches, fault \in Faults,
           shareFault \in {"ok"} \cup ShareFaults :
            LET req == [NoRequest EXCEPT !.method = "DELETE", !.auth = auth,
                                         !.ifScheduleTagMatch = tag, !.ifMatch = ifMatch,
                                         !.fault = fault, !.shareFault = shareFault]
            IN  /\ abook => tag = NoToken /\ ifMatch = NoToken
                /\ ~abook => shareFault = "ok"
                /\ Answer(req, IF abook THEN addressbook_http_DELETE(resource, store, req)
                               ELSE calendar_http_DELETE(resource, store,
                                                         config.ScheduleTagCompatibility, req))

MOVE ==
    /\ request = NoRequest
    /\ \E unbind \in AuthorizeOutcomes, bind \in AuthorizeOutcomes,
           tag \in {NoToken} \cup ScheduleTags, ifMatch \in IfMatches,
           destination \in Destinations, overwrite \in Overwrites, fault \in Faults :
            LET req == [NoRequest EXCEPT !.method = "MOVE", !.auth = unbind, !.bind = bind,
                                         !.ifScheduleTagMatch = tag, !.ifMatch = ifMatch,
                                         !.destination = destination, !.overwrite = overwrite,
                                         !.fault = fault]
            IN  /\ abook => tag = NoToken /\ ifMatch = NoToken
                /\ Answer(req, IF abook THEN http_MOVE(TRUE, resource, store, req)
                               ELSE calendar_http_MOVE(resource, store,
                                                       config.ScheduleTagCompatibility, req))

split ==
    /\ request = NoRequest
    /\ ~abook
    /\ \E auth \in AuthorizeOutcomes, tag \in {NoToken} \cup ScheduleTags,
          ifMatch \in IfMatches, prefer \in BOOLEAN,
          accept \in {"ok", "unacceptable"}, rid \in {"ok", "missing", "invalid"},
          fault \in {"ok", "InvalidSplit", "LockTimeout"} :
      \E new \in IF fault = "ok" /\ rid = "ok" THEN Stored(abook, store) ELSE {store} :
        LET req == [NoRequest EXCEPT !.method = "POST", !.action = "split", !.auth = auth,
                                     !.ifScheduleTagMatch = tag, !.ifMatch = ifMatch,
                                     !.prefer = prefer, !.accept = accept, !.rid = rid,
                                     !.fault = fault]
        IN  Answer(req, POST_handler_action(resource, store, managedIDs, config, req, new))

precondition ==
    /\ request = NoRequest
    /\ ~abook
    /\ \E meth \in {"GET", "PUT", "DELETE"}, ifMatch \in {NoToken} \cup ETags,
          ifNoneMatch \in {NoToken, 1}, prefer \in BOOLEAN,
          accept \in {"ok", "unacceptable"} :
        LET req == [NoRequest EXCEPT !.method = meth, !.ifMatch = ifMatch,
                                     !.ifNoneMatch = ifNoneMatch,
                                     !.prefer = prefer, !.accept = accept]
            res == checkPreconditions(resource, store, config.ScheduleTagCompatibility, req)
        IN  Answer([req EXCEPT !.method = "checkPreconditions", !.body = meth], res)

collectionDELETE ==
    /\ request = NoRequest
    /\ \E auth \in AuthorizeOutcomes, depth \in {"infinity", "0"},
           fault \in {"ok"} \cup CollectionFaults :
            LET req == [NoRequest EXCEPT !.method = "collection DELETE", !.auth = auth,
                                         !.depth = depth, !.fault = fault]
            IN  AnswerCollection(req, collection_http_DELETE(collection, req))

collectionMOVE ==
    /\ request = NoRequest
    /\ \E unbind \in AuthorizeOutcomes, bind \in AuthorizeOutcomes,
           destination \in Destinations, fault \in {"ok"} \cup CollectionFaults :
            LET req == [NoRequest EXCEPT !.method = "collection MOVE", !.auth = unbind,
                                         !.bind = bind, !.destination = destination,
                                         !.fault = fault]
            IN  AnswerCollection(req, collection_http_MOVE(collection, req))

NextObject ==
    \/ GET
    \/ PUT
    \/ PATCH
    \/ DELETE
    \/ MOVE
    \/ split
    \/ collectionDELETE
    \/ collectionMOVE
    \/ requestDone

SpecObject == InitObject /\ [][NextObject]_vars

\* a calendar object resource, bound or not, with its superseded entity tags
InitPreconditions ==
    /\ abook = FALSE
    /\ NoSide
    /\ shared = {}
    /\ BatchIdle
    /\ NoRemove
    /\ collection = [kind |-> "calendar", bound |-> TRUE, sharee |-> FALSE, name |-> "a"]
    /\ \/ resource = [storeObject |-> None, metadata |-> {}] /\ store = NoStoreObject
       \/ resource = [storeObject |-> "object", metadata |-> {}] /\ store \in StoreObjects(FALSE)
    /\ request = NoRequest
    /\ outcome = NoOutcome
    /\ config \in [ScheduleTagCompatibility : BOOLEAN, EnableCalendarObject : {FALSE},
                    EnableManagedAttachments : {TRUE},
                    EnableProxyPrincipals : {FALSE}]

NextPreconditions == precondition \/ requestDone

SpecPreconditions == InitPreconditions /\ [][NextPreconditions]_vars

\* ====================================================== claims, objects
\* the request made a backend call of this name
Called(call) == \E i \in 1..Len(outcome.calls) : outcome.calls[i] = call

\* the request ended without an exception
Succeeded == outcome.method # None /\ outcome.raised = NoRaise

\* C11: after any sequence of storeComponent, storeRemove and MOVE on an
\* object resource, exists() is true iff the resource is bound to an object
\* the backend holds; a storeComponent that succeeds on an unbound resource
\* creates the backend object, binds the resource and returns Created, on a
\* bound resource it updates in place, keeps the binding and returns
\* No-Content; a storeRemove or MOVE that succeeds leaves the resource unbound
ExistsIffBound ==
    /\ exists(resource) <=> store.object
    /\ outcome.stored = "CREATED" =>
          ~outcome.was /\ exists(resource) /\ Called("createObjectResourceWithName")
    /\ outcome.stored = "NO_CONTENT" =>
          outcome.was /\ exists(resource) /\ Called("setComponent")
    /\ outcome.method \in {"DELETE", "MOVE"} /\ Succeeded => ~exists(resource)

\* the request was refused with Not-Found before any backend call
NotFound == outcome.raised = HTTPStatusError("NOT_FOUND") /\ outcome.calls = <<>>

\* the request was on a resource that was unbound when it came
OnUnbound(methods) == outcome.method \in methods /\ ~outcome.was

\* C12 as stated: GET, DELETE, MOVE and (with the feature flag on) PATCH on an
\* unbound object resource, and DELETE and MOVE on an unbound collection, fail
\* with Not-Found without any call to the backend store
UnboundIsNotFound ==
    /\ OnUnbound({"GET", "DELETE", "MOVE"}) => NotFound
    /\ OnUnbound({"PATCH"}) /\ config.EnableCalendarObject => NotFound
    /\ OnUnbound({"collection DELETE", "collection MOVE"}) => NotFound

\* C12, amended: no request on an unbound resource calls the backend store;
\* GET, MOVE and (with the feature flag on) PATCH on an unbound object
\* resource and MOVE on an unbound calendar collection fail with Not-Found;
\* DELETE on an unbound object resource, calendar or address book fails with
\* Not-Found when unbind is granted on the parent and with the failure of
\* that privilege check when it is not; DELETE on an inbox and MOVE on an
\* inbox or an address book are answered Forbidden, bound or not
UnboundIsRefused ==
    /\ OnUnbound({"GET", "MOVE"}) => NotFound
    /\ OnUnbound({"PATCH"}) /\ config.EnableCalendarObject => NotFound
    /\ OnUnbound({"DELETE"}) =>
          /\ outcome.calls = <<>>
          /\ outcome.raised = IF request.auth = NoRaise THEN HTTPStatusError("NOT_FOUND")
                              ELSE request.auth
    /\ OnUnbound({"collection DELETE"}) =>
          /\ outcome.calls = <<>>
          /\ IF collection.kind = "inbox"
             THEN outcome.raised = NoRaise /\ outcome.code = "FORBIDDEN"
             ELSE outcome.raised = IF request.auth = NoRaise
                                   THEN HTTPStatusError("NOT_FOUND") ELSE request.auth
    /\ OnUnbound({"collection MOVE"}) =>
          /\ outcome.calls = <<>>
          /\ IF collection.kind = "calendar" THEN NotFound
             ELSE outcome.raised = NoRaise /\ outcome.code = "FORBIDDEN"

\* a DELETE that was allowed found the object resource unbound
UnboundDeleteNotFound ==
    OnUnbound({"DELETE"}) /\ request.auth = NoRaise /\ NotFound

\* the exception map in force around the backend call of the request
ActiveMap ==
    CASE outcome.method \in {"PUT", "PATCH", "DELETE"} -> StoreExceptionsErrors(abook)
      [] outcome.method = "MOVE" -> StoreMoveExceptionsErrors(abook)
      [] OTHER -> CollectionStoreExceptionsErrors(collection.kind)

\* the backend call of the request that is made inside a try whose except
\* clause looks the exception up in a map raised request.fault
MappedCallFailed ==
    /\ request.fault # "ok"
    /\ \/ outcome.method \in {"PUT", "PATCH"}
             /\ (Called("setComponent") \/ Called("createObjectResourceWithName"))
       \/ outcome.method = "DELETE" /\ Called("remove")
       \/ outcome.method = "MOVE" /\ Called("moveTo")
       \/ outcome.method = "collection DELETE" /\ outcome.calls # <<>>

\* the HTTP error the entry of a map stands for
ErrorOf(entry) ==
    [kind |-> "HTTPError", type |-> "HTTPError",
     code |-> IF entry.strategy = "unavailable" THEN "SERVICE_UNAVAILABLE" ELSE "FORBIDDEN",
     structured |-> entry.strategy = "error",
     el |-> IF entry.strategy = "error" THEN entry.arg ELSE None,
     headers |-> IF entry.strategy = "unavailable" THEN {"Retry-After"} ELSE {}]

\* C13 as stated: when a store operation raises an exception whose exact type
\* is a key of the active exception map, the paired strategy is invoked with
\* the paired static argument and an HTTP error is raised in its place; when
\* the type is not a key of that map, the original exception propagates
\* unchanged
MapDecides ==
    MappedCallFailed =>
        outcome.thrown = IF request.fault \in DOMAIN ActiveMap
                         THEN ErrorOf(ActiveMap[request.fault])
                         ELSE Exception(request.fault)

\* C13, amended: as stated, except that the removal of an object resource
\* answers the backend's no-such-object error, which is no key of the map,
\* with Not-Found instead of letting it propagate
MapDecidesButNoSuchObject ==
    MappedCallFailed =>
        outcome.thrown =
            IF outcome.method = "DELETE" /\ request.fault = "NoSuchObjectResourceError"
            THEN HTTPStatusError("NOT_FOUND")
            ELSE IF request.fault \in DOMAIN ActiveMap
            THEN ErrorOf(ActiveMap[request.fault])
            ELSE Exception(request.fault)

\* the backend's moveTo raised an exception of a type the move map has
MoveFaultMapped ==
    /\ MappedCallFailed
    /\ outcome.method = "MOVE"
    /\ request.fault = "InvalidResourceMove"
    /\ outcome.raised = HTTPErrorResponse("FORBIDDEN", "valid-move")

\* a store, remove, move or rename call of the request raised LockTimeout
LockTimedOut ==
    /\ outcome.method \in {"PUT", "PATCH", "DELETE", "MOVE", "collection DELETE",
                           "collection MOVE"}
    /\ outcome.calls # <<>>
    /\ \/ request.shareFault = "LockTimeout"
       \/ /\ request.shareFault = "ok"
          /\ request.fault = "LockTimeout"
          /\ outcome.calls[Len(outcome.calls)] # "componentForUser"

\* C14: a backend lock timeout raised during any mutating operation (store,
\* remove, move or rename) on a calendar collection, a calendar object, an
\* address-book collection or an address-book object surfaces as
\* Service-Unavailable with a Retry-After header, never as an unmapped
\* exception
LockTimeoutIsUnavailable ==
    LockTimedOut =>
        /\ outcome.raised.kind = "HTTPError"
        /\ outcome.raised.code = "SERVICE_UNAVAILABLE"
        /\ "Retry-After" \in outcome.raised.headers

\* the checks of an object MOVE, in the order the claim gives them
MoveChecks == <<"exists", "header", "overwrite", "isCollection", "sameHome", "unbind", "bind">>

\* what the check finds for the request that was made
MoveCheckHeld(check) ==
    CASE check = "exists" -> outcome.was
      [] check = "header" -> request.destination.header
      [] check = "overwrite" -> ~request.destination.exists
      [] check = "isCollection" -> request.destination.isCollection
      [] check = "sameHome" -> request.destination.sameHome
      [] check = "unbind" -> request.auth = NoRaise
      [] OTHER -> request.bind = NoRaise

\* C15: an object MOVE calls the backend move only after the source exists, a
\* Destination header is present, the destination does not exist, the
\* destination parent is a store collection, source and destination have the
\* same grandparent, unbind is granted on the source parent and bind on the
\* destination parent, checked in this order; when any check fails the
\* backend is not touched and the source stays bound
MoveChecksInOrder ==
    outcome.method = "MOVE" =>
        /\ Called("moveTo") => \A i \in 1..Len(MoveChecks) : MoveCheckHeld(MoveChecks[i])
        /\ \A j \in 1..Len(MoveChecks) :
              outcome.at = MoveChecks[j] =>
                  /\ ~MoveCheckHeld(MoveChecks[j])
                  /\ \A i \in 1..(j - 1) : MoveCheckHeld(MoveChecks[i])
        /\ (\E i \in 1..Len(MoveChecks) : ~MoveCheckHeld(MoveChecks[i])) =>
              /\ outcome.calls = <<>>
              /\ outcome.raised # NoRaise
              /\ exists(resource) = outcome.was
              /\ store.object = outcome.was

\* a MOVE that passed every check moved the object
MovedAfterChecks ==
    /\ outcome.method = "MOVE"
    /\ Succeeded
    /\ outcome.calls = <<"moveTo">>
    /\ ~exists(resource)

\* C16: a collection is renamed by MOVE only if the caller holds unbind on the
\* source parent and bind on the destination parent, the destination has the
\* same parent as the source and the destination does not exist; otherwise
\* the backend rename is not called and the collection keeps its name
RenameOnlyIfPermitted ==
    outcome.method = "collection MOVE" =>
        LET permitted == /\ request.auth = NoRaise
                         /\ request.bind = NoRaise
                         /\ request.destination.sameHome
                         /\ ~request.destination.exists
        IN  /\ Called("rename") => permitted
            /\ ~permitted => outcome.calls = <<>>

\* an object MOVE that got as far as looking at its destination, which exists
MoveOntoExisting ==
    /\ outcome.method = "MOVE"
    /\ request.destination.exists
    /\ outcome.was
    /\ outcome.at # "validIfScheduleMatch"

\* C17: a MOVE of an object onto a destination that already exists never
\* moves anything; when the source exists and the request passed the
\* schedule-tag test, it fails with Forbidden if Overwrite is unset or true
\* and with Precondition-Failed if Overwrite is false
ExistingDestinationRefused ==
    /\ outcome.method = "MOVE" /\ request.destination.exists =>
          /\ outcome.calls = <<>>
          /\ outcome.raised # NoRaise
          /\ exists(resource) = outcome.was
          /\ store.object = outcome.was
    /\ MoveOntoExisting =>
          /\ outcome.at = "overwrite"
          /\ outcome.raised = HTTPStatusError(IF request.overwrite \in {"unset", "T"}
                                              THEN "FORBIDDEN"
                                              ELSE "PRECONDITION_FAILED")

\* a MOVE without an Overwrite header onto an existing destination was
\* answered Forbidden
MoveOntoExistingForbidden ==
    /\ MoveOntoExisting
    /\ request.overwrite = "unset"
    /\ outcome.raised = HTTPStatusError("FORBIDDEN")
    /\ exists(resource)

\* a PUT, PATCH, DELETE, MOVE or split on a bound calendar object that got as
\* far as the schedule tag test with an If-Schedule-Tag-Match header that is
\* not the object's schedule tag
ScheduleTagMismatch ==
    /\ ~abook
    /\ outcome.method \in {"PUT", "PATCH", "DELETE", "MOVE", "POST"}
    /\ outcome.was
    /\ request.ifScheduleTagMatch # NoToken
    /\ request.ifScheduleTagMatch # outcome.tag
    /\ outcome.method \in {"DELETE", "POST"} => request.auth = NoRaise
    /\ outcome.method \in {"PUT", "PATCH"} => request.body # "badtype"
    /\ outcome.method = "PATCH" => config.EnableCalendarObject

\* the request changed nothing in the backend
NoStoreMutation == \A i \in 1..Len(outcome.calls) : outcome.calls[i] = "componentForUser"

\* C18: a PUT, PATCH, DELETE, MOVE or split on a calendar object that carries
\* an If-Schedule-Tag-Match header different from the object's current
\* schedule tag fails with Precondition-Failed before any store mutation,
\* whether or not legacy-compatibility mode is enabled and whatever the
\* If-Match header says
ScheduleTagMismatchIsPreconditionFailed ==
    ScheduleTagMismatch =>
        /\ outcome.raised = HTTPStatusError("PRECONDITION_FAILED")
        /\ NoStoreMutation
        /\ exists(resource)

\* the precondition check of an update of a calendar object that has an
\* If-Match header
UpdateChecked ==
    /\ outcome.method = "checkPreconditions"
    /\ request.body \in {"PUT", "DELETE"}
    /\ outcome.was
    /\ request.ifMatch # NoToken
    /\ request.ifNoneMatch = NoToken

\* the If-Match token is one of the object's superseded entity tags
MatchesHistorical ==
    \E i \in 1..Len(store.scheduleEtags) : store.scheduleEtags[i] = request.ifMatch

\* C19: with legacy-merge mode disabled, an update of a calendar object whose
\* If-Match token is not the current entity tag fails with
\* Precondition-Failed; with it enabled, an If-Match token equal to the
\* current entity tag or to any token of the object's historical
\* schedule-etag set passes the precondition check, whatever the size of
\* that set
StaleMatchPolicy ==
    UpdateChecked =>
        /\ ~config.ScheduleTagCompatibility /\ request.ifMatch # store.etag =>
              outcome.raised = HTTPStatusError("PRECONDITION_FAILED")
        /\ config.ScheduleTagCompatibility
              /\ (request.ifMatch = store.etag \/ MatchesHistorical) =>
              outcome.raised = NoRaise

\* a calendar PUT or PATCH that reached the store
ReachedStore ==
    /\ ~abook
    /\ outcome.method \in {"PUT", "PATCH"}
    /\ Called("setComponent") \/ Called("createObjectResourceWithName")

\* C20: the smart-merge option passed to the store by a calendar PUT or PATCH
\* is true iff the request has an If-Schedule-Tag-Match header equal to the
\* current schedule tag, or has no such header while legacy-compatibility
\* mode is enabled and an If-Match header is present; it is false in every
\* other case that reaches the store
SmartMergeOption ==
    ReachedStore =>
        /\ outcome.smartMerge \in BOOLEAN
        /\ outcome.smartMerge =
              (\/ /\ request.ifScheduleTagMatch # NoToken
                  /\ request.ifScheduleTagMatch = outcome.tag
               \/ /\ request.ifScheduleTagMatch = NoToken
                  /\ config.ScheduleTagCompatibility
                  /\ request.ifMatch # NoToken)

\* a PUT without If-Schedule-Tag-Match but with If-Match was stored with
\* smart merge in compatibility mode
SmartMergeByIfMatch ==
    /\ ReachedStore
    /\ outcome.method = "PUT"
    /\ request.ifScheduleTagMatch = NoToken
    /\ request.ifMatch # NoToken
    /\ config.ScheduleTagCompatibility
    /\ outcome.smartMerge = TRUE
    /\ Succeeded

\* what the precondition check of the request raised before any Prefer
\* processing (the check changes neither the resource nor the backend)
PreconditionFailure ==
    calendar_checkPreconditions(resource, store, config.ScheduleTagCompatibility,
                                request.body, request.ifMatch, request.ifNoneMatch)

\* C21: when a precondition check on an object resource fails with
\* Precondition-Failed and the request has Prefer: return=representation, the
\* error response carries the current representation and still has status
\* Precondition-Failed; without that preference the failure response is the
\* original one; a failure with any other status is re-raised unchanged
PreferKeepsPreconditionFailed ==
    outcome.method = "checkPreconditions" /\ PreconditionFailure # NoRaise =>
        /\ outcome.raised = PreconditionFailure
        /\ outcome.calls =
              IF request.prefer /\ PreconditionFailure = HTTPStatusError("PRECONDITION_FAILED")
              THEN <<"componentForUser">> ELSE <<>>

\* ============================================================ attachments
\* the transport's loseConnection(): the backend compares what was written
\* with the size limit and with the quota that is left, when the stream is
\* closed
loseConnection(a, written) ==
    IF written > a.limit THEN "AttachmentSizeTooLarge"
    ELSE IF written > a.free THEN "QuotaExceeded"
    ELSE "ok"

\* what store() and the writes of readStream can raise
AttachmentFaults == {"AttachmentDropboxNotAllowed", "IOError"}

http_PUTIgnoreClose(a, req) ==
    IF req.auth # NoRaise THEN Refused(req.auth, "authorize", a, None)
    ELSE IF a.managed THEN Refused(HTTPStatusError("FORBIDDEN"), "managed", a, None)
    ELSE Result(NoRaise, IF a.bound THEN "NO_CONTENT" ELSE "CREATED",
                <<"store">> \o [i \in 1..req.length |-> "write"] \o <<"loseConnection">>,
                [a EXCEPT !.bound = TRUE, !.size = req.length], None)

\* CalendarAttachment.http_PUT behind @requiresPermissions(davxml.WriteContent())
attachment_http_PUT(a, req) ==
    IF req.auth # NoRaise THEN Refused(req.auth, "authorize", a, None)
    ELSE IF a.managed THEN Refused(HTTPStatusError("FORBIDDEN"), "managed", a, None)
    ELSE LET creating == ~a.bound
             created == [a EXCEPT !.bound = TRUE]
             open == (IF creating THEN <<"createAttachmentWithName">> ELSE <<>>)
                        \o <<"store">>
             written == open \o [i \in 1..req.length |-> "write"]
             close == loseConnection(a, req.length)
         IN  IF req.fault = "AttachmentDropboxNotAllowed"
             THEN Result(HTTPStatusError("FORBIDDEN"), None, open, created, None)
             ELSE IF req.fault # "ok"
             THEN Result(HTTPStatusError("SERVICE_UNAVAILABLE"), None, open \o <<"write">>,
                         created, None)
             ELSE IF close = "AttachmentSizeTooLarge"
             THEN Result(HTTPErrorResponse("FORBIDDEN", "max-attachment-size"), None,
                         written \o <<"loseConnection">>, created, None)
             ELSE IF close = "QuotaExceeded"
             THEN Result(HTTPErrorResponse("INSUFFICIENT_STORAGE_SPACE", "quota-not-exceeded"),
                         None, written \o <<"loseConnection">>, created, None)
             ELSE Result(NoRaise, IF creating THEN "CREATED" ELSE "NO_CONTENT",
                         written \o <<"loseConnection">>,
                         [created EXCEPT !.size = req.length], None)

http_DELETEManaged(a, req) ==
    IF req.auth # NoRaise THEN Refused(req.auth, "authorize", a, None)
    ELSE IF ~a.bound THEN Refused(HTTPStatusError("NOT_FOUND"), "exists", a, None)
    ELSE IF req.fault # "ok"
    THEN Result(Exception(req.fault), None, <<"removeAttachmentWithName">>, a, None)
    ELSE Result(NoRaise, "NO_CONTENT", <<"removeAttachmentWithName">>,
                [a EXCEPT !.bound = FALSE, !.size = 0], None)

\* CalendarAttachment.http_DELETE behind
\* @requiresPermissions(fromParent=[davxml.Unbind()])
attachment_http_DELETE(a, req) ==
    IF req.auth # NoRaise THEN Refused(req.auth, "authorize", a, None)
    ELSE IF a.managed THEN Refused(HTTPStatusError("FORBIDDEN"), "managed", a, None)
    ELSE IF ~a.bound THEN Refused(HTTPStatusError("NOT_FOUND"), "exists", a, None)
    ELSE IF req.fault # "ok"
    THEN Result(Exception(req.fault), None, <<"removeAttachmentWithName">>, a, None)
    ELSE Result(NoRaise, "NO_CONTENT", <<"removeAttachmentWithName">>,
                [a EXCEPT !.bound = FALSE, !.size = 0], None)

\* CalendarAttachment.http_GET behind @requiresPermissions(davxml.Read());
\* fault is what the backend's retrieve() raised
attachment_http_GET(a, req) ==
    IF req.auth # NoRaise THEN Refused(req.auth, "authorize", a, None)
    ELSE IF ~a.bound THEN Refused(HTTPStatusError("NOT_FOUND"), "exists", a, None)
    ELSE IF req.fault = "IOError"
    THEN Result(HTTPStatusError("NOT_FOUND"), None, <<"retrieve">>, a, None)
    ELSE Result(NoRaise, "OK", <<"retrieve">>, a, None)

\* AttachmentsChildCollection.http_ACL, http_MKCOL and, behind
\* @requiresPermissions(fromParent=[davxml.Unbind()]), http_DELETE
dropbox_http(meth, a, req) ==
    IF meth = "DELETE" /\ req.auth # NoRaise THEN Refused(req.auth, "authorize", a, None)
    ELSE IF meth = "DELETE" THEN Result(NoRaise, "NO_CONTENT", <<>>, a, None)
    ELSE Result(NoRaise, "FORBIDDEN", <<>>, a, None)

\* ---------------------------------------------------- attachment requests
\* a legacy attachment resource: of a managed attachment or not, bound to a
\* backend attachment of some size or not, behind a backend with a size limit
\* and some quota left
Attachments ==
    {a \in [managed : BOOLEAN, bound : BOOLEAN, size : 0..MaxBytes, limit : 1..MaxBytes,
            free : 0..MaxBytes] :
        /\ a.managed => a.bound
        /\ ~a.bound => a.size = 0
        /\ a.size <= a.limit}

\* no managed attachments are in play
NoManaged == ~exists(resource) /\ managedIDs = {}

\* either a legacy attachment resource, or a calendar object, bound or not,
\* with its managed attachments
InitAttachment ==
    /\ abook = FALSE
    /\ shared = {}
    /\ BatchIdle
    /\ NoRemove
    /\ collection = [kind |-> "calendar", bound |-> TRUE, sharee |-> FALSE, name |-> "a"]
    /\ request = NoRequest
    /\ outcome = NoOutcome
    /\ store = NoStoreObject
    /\ attendees = <<>>
    /\ invites = <<>>
    /\ acl = NoACL
    /\ NoProperties
    /\ NoTransactions
    /\ \/ /\ attachment \in Attachments
          /\ resource = [storeObject |-> None, metadata |-> {}]
          /\ managedIDs = {}
          /\ config = [ScheduleTagCompatibility |-> FALSE, EnableCalendarObject |-> FALSE,
                       EnableManagedAttachments |-> TRUE,
                 EnableProxyPrincipals |-> FALSE]
       \/ /\ attachment = NoAttachment
          /\ resource \in {[storeObject |-> None, metadata |-> {}], [storeObject |-> "object", metadata |-> {}]}
          /\ managedIDs \in SUBSET ManagedIDs
          /\ exists(resource) \/ managedIDs = {}
          /\ config \in [ScheduleTagCompatibility : {FALSE}, EnableCalendarObject : {FALSE},
                         EnableManagedAttachments : BOOLEAN,
                         EnableProxyPrincipals : {FALSE}]

\* a request on the attachment resource or its collection was answered with res
AnswerAttachment(req, res) ==
    /\ NoManaged
    /\ res.calls = <<>> => req.fault = "ok"
    /\ request' = req
    /\ outcome' = [NoOutcome EXCEPT !.method = req.method, !.was = attachment.bound,
                                    !.raised = res.raised, !.code = res.code,
                                    !.calls = res.calls, !.at = res.at]
    /\ attachment' = res.resource
    /\ UNCHANGED <<batchVars, removeVars, resource, store, collection, config, managedIDs,
                   attendees, invites, acl, propertyVars, transactionVars>>

attachmentPUT ==
    /\ request = NoRequest
    /\ \E auth \in AuthorizeOutcomes, length \in 0..MaxBytes,
          fault \in {"ok"} \cup AttachmentFaults :
        LET req == [NoRequest EXCEPT !.method = "attachment PUT", !.auth = auth,
                                     !.length = length, !.fault = fault]
        IN  /\ fault = "IOError" => length > 0
            /\ AnswerAttachment(req, attachment_http_PUT(attachment, req))

attachmentGET ==
    /\ request = NoRequest
    /\ \E auth \in AuthorizeOutcomes, fault \in {"ok", "IOError"} :
        LET req == [NoRequest EXCEPT !.method = "attachment GET", !.auth = auth,
                                     !.fault = fault]
        IN  AnswerAttachment(req, attachment_http_GET(attachment, req))

attachmentDELETE ==
    /\ request = NoRequest
    /\ \E auth \in AuthorizeOutcomes, fault \in {"ok", "RuntimeError"} :
        LET req == [NoRequest EXCEPT !.method = "attachment DELETE", !.auth = auth,
                                     !.fault = fault]
        IN  AnswerAttachment(req, attachment_http_DELETE(attachment, req))

dropbox ==
    /\ request = NoRequest
    /\ \E meth \in {"ACL", "MKCOL", "DELETE"}, auth \in AuthorizeOutcomes :
        LET req == [NoRequest EXCEPT !.method = "dropbox", !.body = meth, !.auth = auth]
        IN  /\ meth # "DELETE" => auth = NoRaise
            /\ AnswerAttachment(req, dropbox_http(meth, attachment, req))

POST ==
    /\ request = NoRequest
    /\ attachment = NoAttachment
    /\ \E action \in Actions \ {"split"}, auth \in AuthorizeOutcomes,
          rid \in {"missing", "ok"}, mid \in {None} \cup ManagedIDs, prefer \in BOOLEAN,
          accept \in {"ok", "unacceptable"}, fault \in {"ok"} \cup AttachmentStoreFaults :
        LET req == [NoRequest EXCEPT !.method = "POST", !.action = action, !.auth = auth,
                                     !.rid = rid, !.mid = mid, !.prefer = prefer,
                                     !.accept = accept, !.fault = fault]
            res == POST_handler_action(resource, store, managedIDs, config, req, store)
        IN  /\ res.calls = <<>> => fault = "ok"
            /\ ~prefer => accept = "ok"
            /\ mid \notin managedIDs /\ action \in {"attachment-update", "attachment-remove"}
                  => fault # "ok"
            /\ request' = req
            /\ outcome' = [NoOutcome EXCEPT !.method = "POST", !.was = exists(resource),
                                            !.raised = res.raised, !.code = res.code,
                                            !.calls = res.calls, !.at = res.at,
                                            !.headers = res.headers]
            /\ managedIDs' = IF startswithAttachment(action) THEN res.store ELSE managedIDs
            /\ UNCHANGED <<batchVars, removeVars, resource, store, collection, config,
                           attachment, attendees, invites, acl, propertyVars, transactionVars>>

NextAttachment ==
    \/ attachmentPUT
    \/ attachmentGET
    \/ attachmentDELETE
    \/ dropbox
    \/ POST
    \/ requestDone

SpecAttachment == InitAttachment /\ [][NextAttachment]_vars

\* ------------------------------------------------- claims, attachments
MaxAttachmentSize == HTTPErrorResponse("FORBIDDEN", "max-attachment-size")

QuotaNotExceeded == HTTPErrorResponse("INSUFFICIENT_STORAGE_SPACE", "quota-not-exceeded")

\* the stream was closed after every byte of the upload was written
ClosedAfterAllBytes ==
    /\ outcome.calls # <<>>
    /\ outcome.calls[Len(outcome.calls)] = "loseConnection"
    /\ Cardinality({i \in 1..Len(outcome.calls) : outcome.calls[i] = "write"}) = request.length

\* C22: a legacy attachment PUT reports an oversize attachment as
\* Forbidden/max-attachment-size and a quota violation as a distinct quota
\* error, both only when the stream is closed after all bytes were written;
\* an upload that hits either limit never returns Created or No-Content
LimitsReportedAtClose ==
    outcome.method = "attachment PUT" =>
        LET oversize == request.length > attachment.limit
            overquota == request.length > attachment.free
            stored == request.auth = NoRaise /\ ~attachment.managed /\ request.fault = "ok"
        IN  /\ outcome.raised \in {MaxAttachmentSize, QuotaNotExceeded} => ClosedAfterAllBytes
            /\ outcome.raised = MaxAttachmentSize => oversize
            /\ outcome.raised = QuotaNotExceeded => overquota /\ ~oversize
            /\ stored /\ oversize => outcome.raised = MaxAttachmentSize
            /\ stored /\ overquota /\ ~oversize => outcome.raised = QuotaNotExceeded
            /\ oversize \/ overquota => outcome.raised # NoRaise /\ outcome.code = None

\* an upload larger than the size limit was refused when the stream was closed
OversizeRefusedAtClose ==
    /\ outcome.method = "attachment PUT"
    /\ request.length > attachment.limit
    /\ outcome.raised = MaxAttachmentSize
    /\ ClosedAfterAllBytes

ManagedPost ==
    /\ outcome.method = "POST"
    /\ request.action \in {"attachment-add", "attachment-update", "attachment-remove"}
    /\ outcome.was
    /\ request.auth = NoRaise
    /\ config.EnableManagedAttachments

\* the backend carried out the operation of the POST
Attached == outcome.calls # <<>> /\ request.fault = "ok"

\* C24: for a managed-attachment POST on an existing calendar object, add and
\* update responses carry the Cal-Managed-ID and Location headers and a
\* remove response carries neither; a request with a rid parameter is
\* rejected with Forbidden/valid-rid-parameter and an update or remove
\* without managed-id with Forbidden/valid-managed-id-parameter, in both
\* cases before the backend is called
ManagedPostContract ==
    ManagedPost =>
        /\ Attached /\ request.action # "attachment-remove" =>
              outcome.raised = NoRaise /\ outcome.headers = {"Location", "Cal-Managed-ID"}
        /\ Attached /\ request.action = "attachment-remove" =>
              outcome.raised = NoRaise /\ outcome.headers = {}
        /\ request.rid # "missing" =>
              /\ outcome.raised = HTTPErrorResponse("FORBIDDEN", "valid-rid-parameter")
              /\ outcome.calls = <<>>
        /\ request.rid = "missing" /\ request.mid = None
              /\ request.action # "attachment-add" =>
              /\ outcome.raised = HTTPErrorResponse("FORBIDDEN", "valid-managed-id-parameter")
              /\ outcome.calls = <<>>

\* C25: a POST whose action parameter is not one of split, attachment-add,
\* attachment-update, attachment-remove fails with
\* Forbidden/valid-action-parameter, also when the action starts with
\* "attachment-", and makes no backend call
UnknownActionForbidden ==
    outcome.method = "POST"
        /\ request.action \notin {"split", "attachment-add", "attachment-update",
                                  "attachment-remove"} =>
        /\ outcome.raised = HTTPErrorResponse("FORBIDDEN", "valid-action-parameter")
        /\ outcome.calls = <<>>

\* ------------------------------------------------------------ claims, PATCH
\* C28: PATCH on a calendar object with the enabling flag off fails with
\* Method-Not-Allowed, also when the resource does not exist or the content
\* type is not a patch type; with the flag on, PATCH on a non-existent resource
\* fails with Not-Found; in none of these cases is the store modified
PatchRefusals ==
    outcome.method = "PATCH" /\ (~config.EnableCalendarObject \/ ~outcome.was) =>
        /\ outcome.raised = HTTPStatusError(IF ~config.EnableCalendarObject THEN "NOT_ALLOWED"
                                            ELSE "NOT_FOUND")
        /\ outcome.calls = <<>>
        /\ outcome.stored = None
        /\ (resource.storeObject # None) = outcome.was

\* a PATCH of another content type on a resource that does not exist, with
\* the flag off, was refused as not allowed
PatchNotAllowedFirst ==
    /\ outcome.method = "PATCH"
    /\ ~config.EnableCalendarObject
    /\ ~outcome.was
    /\ request.body = "badtype"
    /\ outcome.raised = HTTPStatusError("NOT_ALLOWED")

\* ==================================================== access control lists
\* davxml.ACE(davxml.Principal(davxml.HRef(...)), davxml.Grant(...), ...): the
\* principal, the proxy group of it the entry is for ("" for the principal
\* itself) and the privileges granted; for tells which attendee or invite
\* the entry was added for
ACE(principal, proxy, grant, for) ==
    [principal |-> principal, proxy |-> proxy, grant |-> grant, for |-> for]

\* the entries for the ATTENDEEs from cuas[i] on: one for the principal, one
\* for each of its two proxy groups; attendees without principal are skipped
RECURSIVE attendeeACEs(_, _, _, _)
attendeeACEs(cuas, i, privileges, readPrivileges) ==
    IF i > Len(cuas) THEN <<>>
    ELSE (IF cuas[i] = None THEN <<>>
          ELSE <<ACE(cuas[i], "", privileges, <<"attendee", i>>),
                 ACE(cuas[i], "calendar-proxy-write/", privileges, <<"attendee", i>>),
                 ACE(cuas[i], "calendar-proxy-read/", readPrivileges, <<"attendee", i>>)>>)
         \o attendeeACEs(cuas, i + 1, privileges, readPrivileges)

\* the entry for the calendar-proxy-write group of the owner
ownerACEs(proxies) ==
    IF proxies THEN <<ACE("owner", "calendar-proxy-write/", {"write-acl"}, <<"owner", 0>>)>>
    ELSE <<>>

\* AttachmentsChildCollection._sharedAccessControl
sharedAccessControl(invite) ==
    IF invite.mode = "direct"
    THEN IF invite.wiki
         THEN IF invite.access = "read" THEN "read-only"
              ELSE IF invite.access \in {"write", "admin"} THEN "read-write"
              ELSE None
         ELSE "original"
    ELSE IF invite.mode = "read" THEN "read-only"
    ELSE IF invite.mode = "write" THEN "read-write"
    ELSE "original"

\* AttachmentsChildCollection.sharedDropboxACEs, from invs[i] on: the entries,
\* or the AttributeError of sharee.record for a direct share of a wiki to a
\* sharee without principal
RECURSIVE sharedDropboxACEs(_, _, _)
sharedDropboxACEs(invs, i, proxies) ==
    IF i > Len(invs) THEN [raised |-> NoRaise, aces |-> <<>>]
    ELSE LET invite == invs[i]
             userprivs == IF sharedAccessControl(invite) \in {"read-only", "read-write"}
                          THEN {"read", "read-current-user-privilege-set"} ELSE {}
             for == <<"invite", i>>
             aces == IF invite.status # "accepted" \/ invite.shareeUID = None THEN <<>>
                     ELSE <<ACE(invite.shareeUID, "", userprivs, for)>>
                          \o (IF proxies
                              THEN <<ACE(invite.shareeUID, "calendar-proxy-read/", userprivs, for),
                                     ACE(invite.shareeUID, "calendar-proxy-write/", userprivs,
                                         for)>>
                              ELSE <<>>)
             rest == sharedDropboxACEs(invs, i + 1, proxies)
         IN  IF /\ invite.status = "accepted" /\ invite.mode = "direct"
                /\ invite.wiki /\ invite.shareeUID = None
             THEN [raised |-> Exception("AttributeError"), aces |-> <<>>]
             ELSE [rest EXCEPT !.aces = aces \o @]

\* CalendarObjectDropbox.sharedDropboxACEs, from invs[i] on: the entries, or
\* the ValueError of proxyprivs.remove(...) on a list without ReadACL
RECURSIVE dropboxSharedACEs(_, _, _)
dropboxSharedACEs(invs, i, proxies) ==
    IF i > Len(invs) THEN [raised |-> NoRaise, aces |-> <<>>]
    ELSE LET invite == invs[i]
             userprivs ==
                 (IF invite.mode \in {"read", "write"}
                  THEN {"read", "read-acl", "read-current-user-privilege-set"} ELSE {})
                 \cup (IF invite.mode = "read" THEN {"write-properties"} ELSE {})
                 \cup (IF invite.mode = "write" THEN {"write"} ELSE {})
             proxyprivs == userprivs \ {"read-acl"}
             for == <<"invite", i>>
             aces == IF invite.status # "accepted" \/ invite.shareeUID = None THEN <<>>
                     ELSE <<ACE(invite.shareeUID, "", userprivs, for)>>
                          \o (IF proxies
                              THEN <<ACE(invite.shareeUID, "calendar-proxy-read/",
                                         {"read", "read-current-user-privilege-set"}, for),
                                     ACE(invite.shareeUID, "calendar-proxy-write/", proxyprivs,
                                         for)>>
                              ELSE <<>>)
             rest == dropboxSharedACEs(invs, i + 1, proxies)
         IN  IF invite.status = "accepted" /\ "read-acl" \notin userprivs
             THEN [raised |-> Exception("ValueError"), aces |-> <<>>]
             ELSE [rest EXCEPT !.aces = aces \o @]

\* CalendarObjectDropbox.accessControlList
CalendarObjectDropbox_accessControlList(cuas, invs, proxies, othersCanWrite) ==
    LET readPrivileges == {"read", "read-current-user-privilege-set"}
        privileges == IF othersCanWrite THEN readPrivileges \cup {"write"} ELSE readPrivileges
        sharees == dropboxSharedACEs(invs, 1, proxies)
    IN  [of |-> "CalendarObjectDropbox", raised |-> sharees.raised,
         othersCanWrite |-> othersCanWrite,
         aces |-> IF sharees.raised # NoRaise THEN <<>>
                  ELSE ownerACEs(proxies) \o attendeeACEs(cuas, 1, privileges, readPrivileges)
                          \o sharees.aces]

\* the entries of the dropbox of the event, given for its managed attachments
accessControlListOfDropbox(cuas, invs, proxies) ==
    [CalendarObjectDropbox_accessControlList(cuas, invs, proxies, TRUE)
        EXCEPT !.of = "AttachmentsChildCollection", !.othersCanWrite = FALSE]

\* AttachmentsChildCollection.accessControlList
AttachmentsChildCollection_accessControlList(cuas, invs, proxies) ==
    LET privileges == {"read", "read-current-user-privilege-set"}
        sharees == sharedDropboxACEs(invs, 1, proxies)
    IN  [of |-> "AttachmentsChildCollection", raised |-> sharees.raised,
         othersCanWrite |-> FALSE,
         aces |-> IF sharees.raised # NoRaise THEN <<>>
                  ELSE ownerACEs(proxies) \o attendeeACEs(cuas, 1, privileges, privileges)
                          \o sharees.aces]

\* the sharing invites of a calendar: a pending invite is only looked at for
\* its status; the access a wiki grants matters for direct shares of a wiki
Invites ==
    [status : {"invited"}, mode : {"read", "write", "direct"}, shareeUID : {"u1"},
     wiki : {FALSE}, access : {"none"}]
    \cup {v \in [status : {"accepted"}, mode : {"read", "write", "direct"},
                 shareeUID : {"u1", None}, wiki : BOOLEAN,
                 access : {"read", "write", "none"}] :
            /\ v.wiki => v.mode = "direct"
            /\ ~v.wiki => v.access = "none"}

\* the sequences over S of length at most n
SeqUpTo(S, n) == UNION {[1..m -> S] : m \in 0..n}

\* an event with its attendees in a calendar with its sharing invites
InitACL ==
    /\ abook = FALSE
    /\ shared = {}
    /\ BatchIdle
    /\ NoRemove
    /\ resource = [storeObject |-> None, metadata |-> {}]
    /\ store = NoStoreObject
    /\ request = NoRequest
    /\ outcome = NoOutcome
    /\ collection = [kind |-> "calendar", bound |-> TRUE, sharee |-> FALSE, name |-> "a"]
    /\ config \in [ScheduleTagCompatibility : {FALSE}, EnableCalendarObject : {FALSE},
                   EnableManagedAttachments : {TRUE}, EnableProxyPrincipals : BOOLEAN]
    /\ attachment = NoAttachment
    /\ managedIDs = {}
    /\ attendees \in SeqUpTo({"u2", None}, MaxAttendees)
    /\ invites \in SeqUpTo(Invites, MaxInvites)
    /\ acl = NoACL
    /\ NoProperties
    /\ NoTransactions

\* the access control list of the managed attachments of the event is asked for
managedACL ==
    /\ acl = NoACL
    /\ acl' = AttachmentsChildCollection_accessControlList(attendees, invites,
                                                           config.EnableProxyPrincipals)
    /\ UNCHANGED <<batchVars, removeVars, objectVars, attachment, managedIDs, attendees,
                   invites, propertyVars, transactionVars>>

\* the access control list of the dropbox of the event is asked for
dropboxACL ==
    /\ acl = NoACL
    /\ \E othersCanWrite \in BOOLEAN :
          acl' = CalendarObjectDropbox_accessControlList(attendees, invites,
                                                         config.EnableProxyPrincipals,
                                                         othersCanWrite)
    /\ UNCHANGED <<batchVars, removeVars, objectVars, attachment, managedIDs, attendees,
                   invites, propertyVars, transactionVars>>

NextACL == managedACL \/ dropboxACL

SpecACL == InitACL /\ [][NextACL]_vars

\* ============================================ claims, access control lists
\* what was added to the list for attendees, their proxies and sharees
AddedForOthers(l) == {k \in DOMAIN l.aces : l.aces[k].for[1] \in {"attendee", "invite"}}

ResolverYieldsNone(invite) == invite.mode = "direct" /\ invite.wiki /\ invite.access = "none"

\* the invites that contributed an entry to the list
Contributors(l) == {l.aces[k].for[2] : k \in {j \in DOMAIN l.aces : l.aces[j].for[1] = "invite"}}

\* C27: in the access control list of an attachment collection, an invite
\* contributes entries only if its status is accepted, and a direct-mode invite
\* for which the external delegation resolver yields none contributes no entry
InviteContributions ==
    \A i \in Contributors(acl) :
        invites[i].status = "accepted" /\ ~ResolverYieldsNone(invites[i])

\* only accepted invites contribute entries
OnlyAcceptedContribute == \A i \in Contributors(acl) : invites[i].status = "accepted"

\* the list of the dropbox of an event is computed whatever the invites are
DropboxListComputed == acl.of = "CalendarObjectDropbox" => acl.raised = NoRaise

\* ==================================================== claims, change token
\* the CTag header of the response of a completed batch is the token read
\* after the last item was executed
CTagHeaderIsTokenAtCompletion ==
    pc = "done" /\ response.status = "MULTI_STATUS" => response.ctag = ctag

\* C29: a completed batch (simple or CRUD) changes the collection's change
\* token exactly once, the token after it being another one than the token
\* before it, and the CTag header of its response is the token read after the
\* last item was executed
BatchBumpsTokenOnce ==
    pc = "done" /\ response.status = "MULTI_STATUS" =>
        /\ response.ctag = ctag
        /\ ctag # 1

\* the token after a completed batch differs from the one before it exactly
\* if an item of the batch changed the store
TokenChangedIffItemStored ==
    pc = "done" /\ response.status = "MULTI_STATUS" =>
        (ctag # 1) = (\E i \in 1..Len(xmlresponses) : xmlresponses[i].code = "OK")

\* ======================================================= property adapter
\* the values a property can have
PropertyValues == {"v1", "v2"}

\* what the backend answers when a property is set
PropertyFaults == {"ok", "PropertyChangeNotAllowedError"}

\* _NewStorePropertiesWrapper._convertKey
convertKey(qname) == PropertyName(qname[1], qname[2])

\* the property store's __getitem__
propertyStoreGet(ps, key) ==
    IF ps[key] = None THEN [raised |-> Exception("KeyError"), value |-> None, store |-> ps]
    ELSE [raised |-> NoRaise, value |-> ps[key], store |-> ps]

\* the property store's __setitem__
propertyStoreSet(ps, key, value, fault) ==
    IF fault # "ok" THEN [raised |-> Exception(fault), value |-> None, store |-> ps]
    ELSE [raised |-> NoRaise, value |-> None, store |-> [ps EXCEPT ![key] = value]]

\* the property store's __delitem__
propertyStoreDel(ps, key) ==
    IF ps[key] = None THEN [raised |-> Exception("KeyError"), value |-> None, store |-> ps]
    ELSE [raised |-> NoRaise, value |-> None, store |-> [ps EXCEPT ![key] = None]]

\* _NewStorePropertiesWrapper.get
properties_get(ps, qname) ==
    LET r == propertyStoreGet(ps, convertKey(qname))
    IN  IF r.raised = Exception("KeyError")
        THEN [r EXCEPT !.raised = HTTPStatusError("NOT_FOUND")]
        ELSE r

\* _NewStorePropertiesWrapper.set
properties_set(ps, qname, value, fault) ==
    LET r == propertyStoreSet(ps, convertKey(qname), value, fault)
    IN  IF r.raised = Exception("PropertyChangeNotAllowedError")
        THEN [r EXCEPT !.raised = HTTPStatusError("FORBIDDEN")]
        ELSE r

\* a delete that reports an absent property as get does
properties_deleteStrict(ps, qname) ==
    LET r == propertyStoreDel(ps, convertKey(qname))
    IN  IF r.raised = Exception("KeyError")
        THEN [r EXCEPT !.raised = HTTPStatusError("NOT_FOUND")]
        ELSE r

\* _NewStorePropertiesWrapper.delete
properties_delete(ps, qname) ==
    LET r == propertyStoreDel(ps, convertKey(qname))
    IN  IF r.raised = Exception("KeyError") THEN [r EXCEPT !.raised = NoRaise] ELSE r

\* _NewStorePropertiesWrapper.contains
properties_contains(ps, qname) == ps[convertKey(qname)] # None

\* _NewStorePropertiesWrapper.list
properties_list(ps) == {<<k.namespace, k.name>> : k \in {j \in PropertyNames : ps[j] # None}}

\* a wrapper was made for an empty property store
InitProperties ==
    /\ abook = FALSE
    /\ shared = {}
    /\ BatchIdle
    /\ NoRemove
    /\ NoObject
    /\ attachment = NoAttachment
    /\ managedIDs = {}
    /\ attendees = <<>>
    /\ invites = <<>>
    /\ acl = NoACL
    /\ NoProperties
    /\ NoTransactions

\* a call of the wrapper was answered with r
AnswerProperties(op, qname, r) ==
    /\ propertyCall' = [op |-> op, qname |-> qname, raised |-> r.raised, value |-> r.value,
                        before |-> properties]
    /\ properties' = r.store
    /\ UNCHANGED <<batchVars, removeVars, objectVars, attachment, managedIDs, attendees,
                   invites, acl, transactionVars>>

propertyGet ==
    \E qname \in Namespaces \X Names :
        AnswerProperties("get", qname, properties_get(properties, qname))

propertySet ==
    \E qname \in Namespaces \X Names, value \in PropertyValues, fault \in PropertyFaults :
        AnswerProperties("set", qname, properties_set(properties, qname, value, fault))

propertyDelete ==
    \E qname \in Namespaces \X Names :
        AnswerProperties("delete", qname, properties_delete(properties, qname))

NextProperties == propertyGet \/ propertySet \/ propertyDelete

SpecProperties == InitProperties /\ [][NextProperties]_vars

\* ================================================ claims, property adapter
\* C30: in the property adapter, get of an absent key fails with Not-Found,
\* set of a property the backend rejects fails with Forbidden and leaves the
\* stored value unchanged, and delete of an absent key succeeds silently, so
\* deleting a key twice has the same result and the same final store as
\* deleting it once
PropertyAdapterContract ==
    LET key == convertKey(propertyCall.qname)
        was == propertyCall.before[key]
    IN  /\ propertyCall.op = "get" /\ was = None =>
            propertyCall.raised = HTTPStatusError("NOT_FOUND")
        /\ propertyCall.op = "set" /\ propertyCall.raised # NoRaise =>
            /\ propertyCall.raised = HTTPStatusError("FORBIDDEN")
            /\ properties = propertyCall.before
        /\ propertyCall.op = "delete" =>
            /\ propertyCall.raised = NoRaise
            /\ was = None => properties = propertyCall.before
            /\ ~properties_contains(properties, propertyCall.qname)
            /\ LET again == properties_delete(properties, propertyCall.qname)
               IN  again.raised = propertyCall.raised /\ again.store = properties

\* a property that was absent was deleted, in a store that holds another
\* property of the same name in the other namespace
AbsentPropertyDeleted ==
    /\ propertyCall.op = "delete"
    /\ propertyCall.before[convertKey(propertyCall.qname)] = None
    /\ propertyCall.raised = NoRaise
    /\ \E k \in PropertyNames : k.name = propertyCall.qname[2] /\ properties[k] # None

\* ============================================================ transactions
\* the owning homes, the calendars and the calendar objects of the backend
HomeUIDs == {"h1", "h2"}
CalendarNames == {"c1"}
ObjectNames == {"o1", "o2"}

\* a store object, or with name None a calendar, as a transaction gave it
Handle(txn, home, calendar, name) ==
    [txn |-> txn, home |-> home, calendar |-> calendar, name |-> name]

\* txn.calendarHomeWithUID(homeUID).calendarWithName(calendarName)
calendarWithName(backend, txn, homeUID, calendarName) ==
    IF homeUID \notin backend.homes THEN [raised |-> Exception("AttributeError"),
                                          value |-> NoHandle]
    ELSE IF <<homeUID, calendarName>> \notin backend.calendars
    THEN [raised |-> NoRaise, value |-> NoHandle]
    ELSE [raised |-> NoRaise, value |-> Handle(txn, homeUID, calendarName, None)]

\* newParent.calendarObjectWithName(objectName)
calendarObjectWithName(backend, parent, objectName) ==
    IF parent = NoHandle THEN [raised |-> Exception("AttributeError"), value |-> NoHandle]
    ELSE IF <<parent.home, parent.calendar, objectName>> \notin backend.objects
    THEN [raised |-> NoRaise, value |-> NoHandle]
    ELSE [raised |-> NoRaise,
          value |-> Handle(parent.txn, parent.home, parent.calendar, objectName)]

\* _CommonObjectResource._initializeWithObject with its property store
initializeWithObjectAndParent(r, storeObject, parentObject) ==
    [r EXCEPT !.storeParent = parentObject,
              !.storeObject = storeObject,
              !.deadProperties = IF storeObject # NoHandle THEN storeObject.txn ELSE None]

\* CalendarObjectResource.inNewTransaction
inNewTransaction(r, req, backend) ==
    LET failed(opened) == [raised |-> Exception("AttributeError"), returned |-> None,
                           opened |-> opened, resource |-> r, request |-> req]
    IN  IF r.storeObject = NoHandle THEN failed({})
        ELSE LET objectName == r.storeObject.name
                 calendarName == r.storeObject.calendar
                 homeUID == r.storeObject.home
                 txn == "t2"
                 newParent == calendarWithName(backend, txn, homeUID, calendarName)
                 newObject == calendarObjectWithName(backend, newParent.value, objectName)
             IN  IF newParent.raised # NoRaise \/ newObject.raised # NoRaise
                 THEN failed({txn})
                 ELSE [raised |-> NoRaise, returned |-> txn, opened |-> {txn},
                       resource |-> initializeWithObjectAndParent(r, newObject.value,
                                                                  newParent.value),
                       request |-> [req EXCEPT !.transaction = txn, !.resourcesByURL = {},
                                               !.urlsByResource = {}]]

\* what a resource is asked to do after it changed its transaction
TransactionOps == {"componentForUser", "storeComponent", "deadProperties", "url", "split"}

\* the transactions whose objects the operation calls: componentForUser and
\* the properties go to the store object, storeComponent to the store object
\* or, without one, to the parent; url() joins names; a split calls splitAt
\* and then has request.locateChildResource(self._parentResource, ...) make
\* the child of the parent resource
transactionsUsed(r, op) ==
    LET bound == r.storeObject # NoHandle
        own == IF bound THEN {r.storeObject.txn} ELSE {}
    IN  CASE op = "componentForUser" -> own
          [] op = "storeComponent" -> IF bound THEN own ELSE {r.storeParent.txn}
          [] op = "deadProperties" -> IF r.deadProperties # None THEN {r.deadProperties} ELSE {}
          [] op = "split" -> own \cup {r.parentResource.txn}
          [] OTHER -> {}

\* the objects a calendar of the backend can hold
ObjectPaths == HomeUIDs \X CalendarNames \X ObjectNames

\* a request found a calendar object resource in its transaction; since then
\* other transactions may have removed the object, its calendar or its home
InitTransactions ==
    /\ abook = FALSE
    /\ shared = {}
    /\ BatchIdle
    /\ NoRemove
    /\ NoObject
    /\ attachment = NoAttachment
    /\ managedIDs = {}
    /\ attendees = <<>>
    /\ invites = <<>>
    /\ acl = NoACL
    /\ NoProperties
    /\ \E path \in ObjectPaths, bound \in BOOLEAN :
          LET parent == Handle("t1", path[1], path[2], None)
          IN  /\ txnResource =
                    [storeObject |-> IF bound THEN Handle("t1", path[1], path[2], path[3])
                                     ELSE NoHandle,
                     storeParent |-> parent,
                     deadProperties |-> IF bound THEN "t1" ELSE None,
                     parentResource |-> parent]
              /\ txnRequest \in [transaction : {"t1"},
                                 resourcesByURL : {{}, {<<path[2], path[3]>>}},
                                 urlsByResource : {{}, {<<path[2], path[3]>>}}]
    /\ txnBackend \in {b \in [homes : SUBSET HomeUIDs,
                              calendars : SUBSET (HomeUIDs \X CalendarNames),
                              objects : SUBSET ObjectPaths] :
                          /\ \A c \in b.calendars : c[1] \in b.homes
                          /\ \A o \in b.objects : <<o[1], o[2]>> \in b.calendars}
    /\ txnLog = NoTxnLog

newTransaction ==
    /\ ~txnLog.called
    /\ LET res == inNewTransaction(txnResource, txnRequest, txnBackend)
       IN  /\ txnResource' = res.resource
           /\ txnRequest' = res.request
           /\ txnLog' = [txnLog EXCEPT !.called = TRUE, !.raised = res.raised,
                                       !.returned = res.returned, !.opened = res.opened,
                                       !.before = txnResource.storeObject]
    /\ UNCHANGED <<batchVars, removeVars, objectVars, attachment, managedIDs, attendees,
                   invites, acl, propertyVars, txnBackend>>

\* the resource is used after the change of transaction
resourceUse ==
    /\ txnLog.called
    /\ txnLog.raised = NoRaise
    /\ \E op \in TransactionOps :
          /\ op \in {"componentForUser", "split"} => txnResource.storeObject # NoHandle
          /\ txnLog' = [txnLog EXCEPT !.ops = @ \cup {op},
                                      !.used = @ \cup transactionsUsed(txnResource, op)]
    /\ UNCHANGED <<batchVars, removeVars, objectVars, attachment, managedIDs, attendees,
                   invites, acl, propertyVars, txnResource, txnRequest, txnBackend>>

NextTransactions == newTransaction \/ resourceUse

SpecTransactions == InitTransactions /\ [][NextTransactions]_vars

\* ==================================================== claims, transactions
\* inNewTransaction returned the new transaction
Returned == txnLog.called /\ txnLog.raised = NoRaise

\* the object a transaction finds under the identity the resource had
Resolved(txn) ==
    IF <<txnLog.before.home, txnLog.before.calendar, txnLog.before.name>> \in txnBackend.objects
    THEN Handle(txn, txnLog.before.home, txnLog.before.calendar, txnLog.before.name)
    ELSE NoHandle

\* after inNewTransaction the resource is bound to what the new transaction
\* resolves under the same identity, the request has the new transaction and
\* empty caches
ReboundInNewTransaction ==
    Returned =>
        /\ txnResource.storeObject = Resolved(txnLog.returned)
        /\ txnResource.storeParent.txn = txnLog.returned
        /\ txnRequest.transaction = txnLog.returned
        /\ txnRequest.resourcesByURL = {} /\ txnRequest.urlsByResource = {}
        /\ txnLog.returned = "t2"

\* C31: after inNewTransaction the calendar object resource is bound to the
\* object the new transaction resolves from the same owning-home UID, calendar
\* name and object name as before, the request's transaction is the new one,
\* the request's lookup caches are empty, and the old transaction is never
\* used by the resource afterwards
NewTransactionReplacesOld ==
    Returned =>
        /\ txnResource.storeObject = Resolved(txnLog.returned)
        /\ txnRequest.transaction = txnLog.returned
        /\ txnRequest.resourcesByURL = {} /\ txnRequest.urlsByResource = {}
        /\ "t1" \notin txnLog.used

\* the store handles of the resource itself never lead to the old transaction
OwnHandlesLeaveOld == Returned /\ "split" \notin txnLog.ops => "t1" \notin txnLog.used

\* ==================================================== claims, eviction loop
\* C32: the eviction loop of the address-book batch create terminates after
\* at most one eviction per deferred group: every turn that does not leave
\* the loop takes one group out of groupRetries, which had the deferred
\* groups at the start; and on exit the unresolved identifiers of every
\* remaining group are a subset of the co-added identifiers
EvictionLoopTerminates ==
    [][pc = "evict" =>
          /\ Len(groupRetries') <= Len(firstPass.deferred)
          /\ pc' = "evict" => Len(groupRetries') = Len(groupRetries) - 1
          /\ pc' # "evict" =>
                \A j \in 1..Len(groupRetries') : groupRetries'[j].missing \subseteq coaddedUIDs'
       ]_vars

\* the loop was left after an eviction, with a deferred group remaining
EvictedAndKept ==
    /\ pc = "retry"
    /\ groupRetries # <<>>
    /\ Len(groupRetries) < Len(firstPass.deferred)

\* ==================================================== claims, batch entry
\* the store is as it was before the request and no item was executed
BatchUntouched ==
    /\ trace = <<>>
    /\ xmlresponses = <<>>
    /\ objects = [h \in Hrefs |-> 1]
    /\ storeUIDs = {}
    /\ ctag = 1

\* the statuses of a request refused by its privilege check
AuthorizeStatuses == {o.code : o \in AuthorizeOutcomes \ {NoRaise}}

\* an item without target and without payload, or an update without payload
Malformed(item) == (~item.href /\ ~item.data) \/ (item.href /\ ~item.delete /\ ~item.data)

\* the indices a list of <<index, ...>> of crudBatchPOST holds
IndicesOf(info) == {info[j] : j \in 1..Len(info)}

\* C33: each CRUD batch item is classified into exactly one of Create (no
\* target reference), Delete (target reference and delete marker) and Update
\* (target reference, no delete marker); if any item is malformed (no target
\* reference and no payload, or an update without payload) the whole request
\* fails with Bad-Request before any item of the batch is executed, so the
\* store is unchanged
CrudClassification ==
    /\ \A item \in [href : BOOLEAN, delete : BOOLEAN, data : BOOLEAN] :
          IF Malformed(item) THEN Classify(item) = "bad"
          ELSE Classify(item) = (IF ~item.href THEN "create"
                                 ELSE IF item.delete THEN "delete" ELSE "update")
    /\ method = "crud" /\ response.status \notin AuthorizeStatuses \cup {"PRECONDITION_FAILED"} =>
          IF \E i \in 1..Len(items) : Malformed(items[i])
          THEN pc = "failed" /\ response.status = "BAD_REQUEST" /\ BatchUntouched
          ELSE /\ pc # "failed"
               /\ \A i \in 1..Len(items) :
                     /\ (i \in IndicesOf(crudCreateInfo)) = ~items[i].href
                     /\ (i \in IndicesOf(crudDeleteInfo)) = (items[i].href /\ items[i].delete)
                     /\ (i \in IndicesOf(crudUpdateInfo)) = (items[i].href /\ ~items[i].delete)

\* a CRUD batch of a well-formed item and an update without payload was
\* refused as a bad request
MalformedBatchRefused ==
    /\ method = "crud"
    /\ Len(items) = 2
    /\ ~Malformed(items[1])
    /\ items[2] = [href |-> TRUE, delete |-> FALSE, data |-> FALSE]
    /\ pc = "failed"
    /\ response.status = "BAD_REQUEST"

\* C34: a batch request (simple or CRUD) whose If header carries a collection
\* change token different from the collection's current one fails with
\* Precondition-Failed before any item is executed; one that carries the
\* current token, or no change token, proceeds
CTagPreconditionFirst ==
    method # None /\ response.status \notin AuthorizeStatuses =>
        IF iffy \notin {NoToken, 1}
        THEN pc = "failed" /\ response.status = "PRECONDITION_FAILED" /\ BatchUntouched
        ELSE response.status # "PRECONDITION_FAILED"

\* a CRUD batch with items and a change token of the past was refused
StaleCTagRefused ==
    /\ method = "crud"
    /\ items # <<>>
    /\ iffy = 2
    /\ pc = "failed"
    /\ response.status = "PRECONDITION_FAILED"

\* ================================================== claims, error elements
\* the failure entries bulkCreate wrote for failures of the items themselves
OwnFailures ==
    {p \in 1..Len(trace) :
        /\ trace[p].op = "create"
        /\ trace[p].own.kind = "HTTPError"
        /\ xmlresponses[trace[p].index] # NoResponse
        /\ xmlresponses[trace[p].index].code # "OK"}

\* C35: in a batch, the failure entry of an item carries a structured error
\* element iff that item's own failure had a structured error body, and the
\* element is the one of that item's failure, never one left over from an
\* item processed earlier in the same batch
ErrorElementIsOwn ==
    \A p \in OwnFailures :
        LET entry == xmlresponses[trace[p].index]
            own == trace[p].own
        IN  /\ (entry.error # None) = own.structured
            /\ own.structured => entry.error = own.el

\* the error element of every failure entry is the one of the item's own
\* failure when that failure had one
StructuredFailureKeepsElement ==
    \A p \in OwnFailures :
        trace[p].own.structured => xmlresponses[trace[p].index].error = trace[p].own.el

\* ================================================== claims, storeComponent
\* the backend call of storeComponent raised
StoreComponentRejected ==
    /\ outcome.method = "PUT"
    /\ outcome.calls # <<>>
    /\ outcome.calls[Len(outcome.calls)] \in {"createObjectResourceWithName", "setComponent"}
    /\ outcome.thrown # NoRaise

\* C36: when the backend rejects the create made by storeComponent on an
\* unbound object resource, the resource stays unbound (exists() is false),
\* its pending metadata is unchanged, and the caller gets the mapped HTTP
\* error or the original exception; when the backend rejects an update on a
\* bound resource, storeComponent leaves the resource bound to the same object
RejectedStoreLeavesBinding ==
    /\ StoreComponentRejected =>
          /\ outcome.thrown = handleStoreException(request.fault, StoreExceptionsErrors(abook))
          /\ outcome.thrown.kind = "Exception" => outcome.thrown.type = request.fault
          /\ ~outcome.was =>
                /\ outcome.calls[Len(outcome.calls)] = "createObjectResourceWithName"
                /\ ~exists(resource)
                /\ resource.metadata = outcome.metadata
          /\ outcome.was /\ request.fault # "ResourceDeletedError" =>
                exists(resource) /\ resource.metadata = outcome.metadata
    /\ \A fault \in Faults \ {"ok"} :
          storeComponent(abook, resource, store, fault, store).resource = resource

\* a PUT of a new calendar object with pending metadata was rejected by the
\* backend
RejectedCreate ==
    /\ StoreComponentRejected
    /\ ~abook
    /\ ~outcome.was
    /\ outcome.metadata # {}
    /\ outcome.thrown.kind = "HTTPError"
    /\ ~exists(resource)

\* ================================================= claims, deleted in PUT
\* the backend call of a PUT raised ResourceDeletedError
DeletedDuringPut ==
    /\ outcome.method = "PUT"
    /\ request.fault = "ResourceDeletedError"
    /\ outcome.calls # <<>>
    /\ outcome.calls[Len(outcome.calls)] \in {"createObjectResourceWithName", "setComponent"}

\* the DELETE requests of a caller who holds the privilege
AuthorizedDeletes ==
    {[NoRequest EXCEPT !.method = "DELETE", !.auth = NoRaise,
                       !.ifScheduleTagMatch = t[1], !.ifMatch = t[2], !.fault = t[3],
                       !.shareFault = t[4]] :
        t \in ({NoToken} \cup ScheduleTags) \X IfMatches \X Faults
                 \X ({"ok"} \cup ShareFaults)}

\* C37: when the store reports during a PUT that the server deleted the
\* resource, the PUT still returns success (No-Content if the resource was
\* bound when the error was caught, Created otherwise) and the resource is
\* rebound to non-existent, so a following GET or DELETE on it gives Not-Found
DeletedPutSucceeds ==
    DeletedDuringPut =>
        /\ outcome.raised = NoRaise
        /\ outcome.code = IF outcome.was THEN "NO_CONTENT" ELSE "CREATED"
        /\ ~exists(resource)
        /\ \A accept \in {"ok", "unacceptable"} :
              render(resource, store, accept).raised = HTTPStatusError("NOT_FOUND")
        /\ \A req \in AuthorizedDeletes :
              (IF abook THEN addressbook_http_DELETE(resource, store, req)
               ELSE calendar_http_DELETE(resource, store, config.ScheduleTagCompatibility,
                                         req)).raised = HTTPStatusError("NOT_FOUND")

\* a PUT on a bound resource was answered No-Content although the server had
\* deleted the resource
DeletedPutOfBound ==
    /\ DeletedDuringPut
    /\ outcome.was
    /\ outcome.code = "NO_CONTENT"
    /\ ~exists(resource)

\* ============================================ claims, failed attachment PUT
\* a legacy PUT that had to create the attachment failed while the stream was
\* written or when it was closed
PutFailedInStream ==
    /\ outcome.method = "attachment PUT"
    /\ ~outcome.was
    /\ outcome.raised # NoRaise
    /\ \E i \in 1..Len(outcome.calls) : outcome.calls[i] \in {"write", "loseConnection"}

\* the GET requests of a caller who holds the Read privilege
AuthorizedGets ==
    {[NoRequest EXCEPT !.method = "attachment GET", !.auth = NoRaise, !.fault = fault] :
        fault \in {"ok", "IOError"}}

\* C38: after a legacy attachment PUT on an attachment resource that did not
\* exist fails, whether while writing the stream or at stream close, the
\* resource is still unbound (exists() is false) and a following GET on it
\* gives Not-Found
FailedCreateStaysUnbound ==
    PutFailedInStream =>
        /\ ~attachment.bound
        /\ \A req \in AuthorizedGets :
              attachment_http_GET(attachment, req).raised = HTTPStatusError("NOT_FOUND")

\* what does hold: the failed upload is answered with an error and none of
\* its bytes is counted as the attachment's content
FailedCreateStoresNothing ==
    PutFailedInStream =>
        /\ outcome.code = None
        /\ attachment.size = 0
====
